---- MODULE Spec2Model ----
(***************************************************************************)
(* A model of the scene optimisation passes of babylon_test:               *)
(*   MaterialOptimizer.optimizeMaterials  (src/src/core/MaterialOptimizer) *)
(*   MeshInstancer.createInstances        (src/src/core/MeshInstancer)     *)
(*   MeshMerger.mergeMeshes               (src/src/core/MeshMerger)        *)
(* run against one Babylon scene.  The scene is scene.meshes (a list of    *)
(* mesh objects) and the materials the meshes point to.  Every pass is     *)
(* synchronous; a pass is cut into steps at its loop iterations so that     *)
(* the order of its writes is visible, and no other operation interleaves  *)
(* with a running pass.                                                    *)
(*                                                                         *)
(* Numbers: colours, alpha, metallic and roughness are in hundredths       *)
(* (0.1 is 10).  Material ids are unique in the scene.  Meshes loaded by   *)
(* GltfLoader all hang under one TransformNode (GltfLoader.ts:35), so a    *)
(* mesh's parent is that node or null, never another mesh.                 *)
(***************************************************************************)
EXTENDS Integers, Sequences, FiniteSets, TLC

(* ---- bounds of the model ---------------------------------------------- *)
MaxMeshes == 3
MaxMats == 3
MaxMergeMeshes == 4
MaxPairMeshes == 4
MaxLoads == 2
MaxSplitSteps == 3

(* ---- null values and sentinels ---------------------------------------- *)
NoMaterial == 0
NoGeometry == 0
NoNode == 0
NoMesh == 0
RootNode == 1

(* ---- defaults of MaterialCompareConfig -------------------------------- *)
ColorThreshold == 10
AlphaThreshold == 5
MetallicThreshold == 10
RoughnessThreshold == 10

VARIABLES sceneMeshes, meshObj, materialObj, config, pc, loc, result, pre, orig

vars == <<sceneMeshes, meshObj, materialObj, config, pc, loc, result, pre, orig>>

(* ---- small helpers ---------------------------------------------------- *)
Abs(x) == IF x < 0 THEN -x ELSE x

Range(s) == {s[i] : i \in 1..Len(s)}

RECURSIVE SumSeq(_)
SumSeq(s) == IF s = <<>> THEN 0 ELSE Head(s) + SumSeq(Tail(s))

(* The decimal digits of a natural number, as characters.                  *)
RECURSIVE IntChars(_)
IntChars(n) ==
  LET d == <<"0", "1", "2", "3", "4", "5", "6", "7", "8", "9">>
  IN  IF n < 10 THEN <<d[n + 1]>> ELSE IntChars(n \div 10) \o <<d[(n % 10) + 1]>>

NoResult == [kind |-> "none"]

(* The scene as one record: what pre and orig remember of it.              *)
Snapshot(ms, mo, mats) == [sceneMeshes |-> ms, meshObj |-> mo, materialObj |-> mats]

NoLoc == [kind |-> "none"]

(***************************************************************************)
(* Materials                                                               *)
(***************************************************************************)
NoTexture == [uid |-> 0, url |-> ""]

NoColor == <<>>

(* A StandardMaterial with the given diffuse red channel and diffuse       *)
(* texture; the other channels keep one value.  id names the material's id *)
(* string (MaterialIdOf): the engine sets it to the name the material is   *)
(* created with and does not keep it unique.                               *)
StdMat(d, tex) ==
  [id |-> 0, cls |-> "StandardMaterial", diffuse |-> <<d, 0, 0>>, specular |-> <<100, 100, 100>>,
   emissive |-> <<0, 0, 0>>, albedo |-> NoColor, metallic |-> 0, roughness |-> 0,
   alpha |-> 100, textures |-> <<tex, NoTexture, NoTexture, NoTexture, NoTexture>>,
   disposed |-> FALSE]

PbrMat(m, tex) ==
  [id |-> 0, cls |-> "PBRMaterial", diffuse |-> NoColor, specular |-> NoColor,
   emissive |-> NoColor, albedo |-> <<100, 100, 100>>, metallic |-> m, roughness |-> 50,
   alpha |-> 100, textures |-> <<tex, NoTexture, NoTexture, NoTexture, NoTexture>>,
   disposed |-> FALSE]

TexA == [uid |-> 1, url |-> "a.png"]

(* The materials a scene is populated from.  Three diffuse levels 20 apart *)
(* make the similarity test non-transitive (0~20, 20~40, 0 and 40 not).    *)
MatPalette ==
  { StdMat(0, NoTexture), StdMat(20, NoTexture), StdMat(40, NoTexture),
    StdMat(20, TexA), PbrMat(0, NoTexture) }

(* The material with its id set.                                           *)
WithId(mat, id) == [mat EXCEPT !.id = id]

(* The id the material is created with in _mergeMaterialGroups, which      *)
(* names it `Merged_${index + 1}`: MergedIdBase + index + 1.               *)
MergedIdBase == 100

(* The id of the MultiMaterial MergeMeshes creates, named after the first  *)
(* source mesh: MultiIdBase + that mesh.                                   *)
MultiIdBase == 200

(* _compareColors *)
CompareColors(color1, color2, threshold) ==
  IF color1 = NoColor /\ color2 = NoColor THEN TRUE
  ELSE IF color1 = NoColor \/ color2 = NoColor THEN FALSE
  ELSE Abs(color1[1] - color2[1]) + Abs(color1[2] - color2[2])
         + Abs(color1[3] - color2[3]) <= threshold * 3

(* _compareTextureArrays over the first n slots *)
CompareTextureArrays(textures1, textures2, n, cfg) ==
  \A i \in 1..n :
    LET tex1 == textures1[i]
        tex2 == textures2[i]
    IN  IF tex1 = NoTexture /\ tex2 = NoTexture THEN TRUE
        ELSE IF tex1 = NoTexture \/ tex2 = NoTexture THEN FALSE
        ELSE IF cfg.textureUrlComparison THEN tex1.url = tex2.url
        ELSE tex1.uid = tex2.uid

(* _compareStandardMaterials *)
CompareStandardMaterials(mat1, mat2, cfg) ==
  /\ CompareColors(mat1.diffuse, mat2.diffuse, cfg.colorThreshold)
  /\ CompareColors(mat1.specular, mat2.specular, cfg.colorThreshold)
  /\ CompareColors(mat1.emissive, mat2.emissive, cfg.colorThreshold)
  /\ Abs(mat1.alpha - mat2.alpha) <= cfg.alphaThreshold
  /\ (cfg.compareTextures => CompareTextureArrays(mat1.textures, mat2.textures, 4, cfg))

(* _comparePBRMaterials *)
ComparePBRMaterials(mat1, mat2, cfg) ==
  /\ CompareColors(mat1.albedo, mat2.albedo, cfg.colorThreshold)
  /\ Abs(mat1.metallic - mat2.metallic) <= cfg.metallicThreshold
  /\ Abs(mat1.roughness - mat2.roughness) <= cfg.roughnessThreshold
  /\ Abs(mat1.alpha - mat2.alpha) <= cfg.alphaThreshold
  /\ (cfg.compareTextures => CompareTextureArrays(mat1.textures, mat2.textures, 5, cfg))

(* _areMaterialsSimilar *)
AreMaterialsSimilar(mat1, mat2, cfg) ==
  IF mat1.cls # mat2.cls THEN FALSE
  ELSE IF mat1.cls = "StandardMaterial" THEN CompareStandardMaterials(mat1, mat2, cfg)
  ELSE IF mat1.cls = "PBRMaterial" THEN ComparePBRMaterials(mat1, mat2, cfg)
  ELSE FALSE

(* mesh.rotationQuaternion unset; the buffers synthesized for a mesh, by   *)
(* attribute kind: none.                                                   *)
NoQuaternion == 0

NoBuffers == [kind \in {} |-> <<>>]

(***************************************************************************)
(* Meshes                                                                  *)
(***************************************************************************)
(* One mesh object.  kind is the runtime class: "Mesh", "InstancedMesh" or *)
(* "AbstractMesh" (any other AbstractMesh).  attrs is the set of vertex    *)
(* attribute kinds its geometry holds, synth the kinds whose buffer was    *)
(* written by _addMissingVertexAttribute.                                  *)
MeshRec(kind, geometry, material, animated, collide, visible, parent, vertices, attrs) ==
  [kind |-> kind, geometry |-> geometry, material |-> material, animated |-> animated,
   checkCollisions |-> collide, isVisible |-> visible, isPickable |-> TRUE,
   parent |-> parent, sourceMesh |-> NoMesh, vertices |-> vertices, attrs |-> attrs,
   synth |-> {}, disposed |-> FALSE,
   position |-> 0, rotation |-> 0, rotationQuaternion |-> NoQuaternion, scaling |-> 1,
   buffers |-> NoBuffers, segments |-> <<>>]

(* The mesh with its transform set: position, rotation (Euler angles, in   *)
(* quarter turns), rotationQuaternion (NoQuaternion, or 1 + quarter turns) *)
(* and scaling; and with its flags set.                                    *)
Placed(mesh, position, rotation, quaternion, scaling) ==
  [mesh EXCEPT !.position = position, !.rotation = rotation,
               !.rotationQuaternion = quaternion, !.scaling = scaling]

Flagged(mesh, visible, pickable, collide) ==
  [mesh EXCEPT !.isVisible = visible, !.isPickable = pickable, !.checkCollisions = collide]

(* The quarter turns the mesh is rotated by: rotationQuaternion, when set, *)
(* takes the place of rotation.                                            *)
Orientation(mesh) ==
  IF mesh.rotationQuaternion # NoQuaternion
    THEN mesh.rotationQuaternion - 1
    ELSE mesh.rotation

(***************************************************************************)
(* MaterialOptimizer                                                       *)
(***************************************************************************)
(* _analyzeMaterials: one MaterialInfo per material id, in the order the   *)
(* ids are first met in scene.meshes.                                      *)
RECURSIVE AnalyzeMaterialsFrom(_, _, _, _, _)
AnalyzeMaterialsFrom(ms, mo, mats, i, infos) ==
  IF i > Len(ms) THEN infos
  ELSE LET m == ms[i]
           mat == mo[m].material
           has(k) == mats[infos[k].material].id = mats[mat].id
       IN  IF mat = NoMaterial THEN AnalyzeMaterialsFrom(ms, mo, mats, i + 1, infos)
           ELSE IF \E k \in 1..Len(infos) : has(k)
             THEN LET k == CHOOSE k \in 1..Len(infos) : has(k)
                  IN  AnalyzeMaterialsFrom(ms, mo, mats, i + 1,
                        [infos EXCEPT ![k].meshes = Append(@, m)])
             ELSE AnalyzeMaterialsFrom(ms, mo, mats, i + 1,
                    Append(infos, [material |-> mat, meshes |-> <<m>>]))

AnalyzeMaterials(ms, mo, mats) == AnalyzeMaterialsFrom(ms, mo, mats, 1, <<>>)

(* Mutant: the inner forEach does not consult the processed set.          *)
AbsorbIgnoringProcessed(info, infos, processed, mats, cfg) ==
  SelectSeq(infos, LAMBDA o :
    /\ mats[o.material].id # mats[info.material].id
    /\ AreMaterialsSimilar(mats[info.material], mats[o.material], cfg))

(* The inner forEach of _groupSimilarMaterials: the infos, in order, that  *)
(* are not yet processed and pass the test against info.                   *)
AbsorbUnprocessed(info, infos, processed, mats, cfg) ==
  SelectSeq(infos, LAMBDA o :
    /\ mats[o.material].id \notin processed
    /\ AreMaterialsSimilar(mats[info.material], mats[o.material], cfg))

(* _groupSimilarMaterials; processed holds material ids.                   *)
RECURSIVE GroupFrom(_, _, _, _, _, _)
GroupFrom(infos, i, processed, groups, mats, cfg) ==
  IF i > Len(infos) THEN groups
  ELSE IF mats[infos[i].material].id \in processed
    THEN GroupFrom(infos, i + 1, processed, groups, mats, cfg)
  ELSE LET info == infos[i]
           group == <<info>> \o
                    AbsorbUnprocessed(info, infos,
                                      processed \cup {mats[info.material].id}, mats, cfg)
       IN  GroupFrom(infos, i + 1,
                     processed \cup {mats[g.material].id : g \in Range(group)},
                     Append(groups, group), mats, cfg)

GroupSimilarMaterials(infos, mats, cfg) == GroupFrom(infos, 1, {}, <<>>, mats, cfg)

(* Mutant: the merged material is created without the source's colours.    *)
CreateMergedMaterialUncopied(src, index) ==
  [src EXCEPT !.id = MergedIdBase + index + 1, !.disposed = FALSE,
              !.diffuse = IF src.cls = "StandardMaterial" THEN <<0, 0, 0>> ELSE @]

(* _createMergedMaterial: a new material carrying the source's colours,    *)
(* scalars and texture references.                                         *)
CreateMergedMaterial(src, index) ==
  IF src.cls = "StandardMaterial"
    THEN [id |-> MergedIdBase + index + 1, cls |-> "StandardMaterial", diffuse |-> src.diffuse, specular |-> src.specular,
          emissive |-> src.emissive, albedo |-> NoColor, metallic |-> 0, roughness |-> 0,
          alpha |-> src.alpha,
          textures |-> <<src.textures[1], src.textures[2], src.textures[3],
                         src.textures[4], NoTexture>>,
          disposed |-> FALSE]
  ELSE IF src.cls = "PBRMaterial"
    THEN [id |-> MergedIdBase + index + 1, cls |-> "PBRMaterial",
          diffuse |-> NoColor, specular |-> NoColor,
          emissive |-> NoColor, albedo |-> src.albedo, metallic |-> src.metallic,
          roughness |-> src.roughness, alpha |-> src.alpha, textures |-> src.textures,
          disposed |-> FALSE]
  ELSE [src EXCEPT !.id = MergedIdBase + index + 1, !.disposed = FALSE]

(* Mutant: the repointing loop misses the info's first mesh.               *)
MeshesToRepointSkipFirst(info) == Range(Tail(info.meshes))

(* The meshes of one MaterialInfo that _mergeMaterialGroups repoints.      *)
MeshesToRepoint(info) == Range(info.meshes)

(* Mutant: the master test is inverted, only the master is disposed.       *)
DisposesOnlyMaster(material, masterMaterial) == material = masterMaterial

(* Whether _mergeMaterialGroups disposes an info's material: every member  *)
(* but the master (group[0]).                                              *)
DisposesMaterial(material, masterMaterial) == material # masterMaterial

(* optimizeMaterials up to the first group: analysis and grouping.         *)
MatBegin ==
  /\ pc = "mat_idle"
  /\ LET infos == AnalyzeMaterials(sceneMeshes, meshObj, materialObj)
     IN  loc' = [kind |-> "mat", infos |-> infos, originalCount |-> Len(infos),
                 groups |-> GroupSimilarMaterials(infos, materialObj, config),
                 gi |-> 1, ii |-> 0, phase |-> "repoint",
                 merged |-> <<>>, cur |-> NoMaterial]
  /\ pre' = [sceneMeshes |-> sceneMeshes, meshObj |-> meshObj, materialObj |-> materialObj]
  /\ pc' = "mat_merge"
  /\ UNCHANGED <<sceneMeshes, meshObj, materialObj, config, result, orig>>

(* Mutant: a singleton group's material is not pushed to the result.       *)
MatKeepSingleNoPush ==
  /\ pc = "mat_merge"
  /\ loc.gi <= Len(loc.groups)
  /\ Len(loc.groups[loc.gi]) = 1
  /\ loc' = [loc EXCEPT !.gi = @ + 1]
  /\ UNCHANGED <<sceneMeshes, meshObj, materialObj, config, pc, result, pre, orig>>

(* group.length === 1: the material is kept as it is.                      *)
MatKeepSingle ==
  /\ pc = "mat_merge"
  /\ loc.gi <= Len(loc.groups)
  /\ Len(loc.groups[loc.gi]) = 1
  /\ loc' = [loc EXCEPT !.merged = Append(@, loc.groups[loc.gi][1].material),
                        !.gi = @ + 1]
  /\ UNCHANGED <<sceneMeshes, meshObj, materialObj, config, pc, result, pre, orig>>

(* group.length > 1: the merged material is created from group[0].         *)
MatCreateMerged ==
  /\ pc = "mat_merge"
  /\ loc.gi <= Len(loc.groups)
  /\ Len(loc.groups[loc.gi]) > 1
  /\ loc.ii = 0
  /\ materialObj' = Append(materialObj,
                      CreateMergedMaterial(materialObj[loc.groups[loc.gi][1].material],
                                           loc.gi - 1))
  /\ loc' = [loc EXCEPT !.cur = Len(materialObj) + 1, !.ii = 1, !.phase = "repoint"]
  /\ UNCHANGED <<sceneMeshes, meshObj, config, pc, result, pre, orig>>

(* group.forEach, first half: the info's meshes get the merged material.   *)
MatRepoint ==
  /\ pc = "mat_merge"
  /\ loc.gi <= Len(loc.groups)
  /\ loc.ii \in 1..Len(loc.groups[loc.gi])
  /\ loc.phase = "repoint"
  /\ LET info == loc.groups[loc.gi][loc.ii]
     IN  meshObj' = [m \in DOMAIN meshObj |->
                       IF m \in MeshesToRepoint(info)
                         THEN [meshObj[m] EXCEPT !.material = loc.cur]
                         ELSE meshObj[m]]
  /\ loc' = [loc EXCEPT !.phase = "dispose"]
  /\ UNCHANGED <<sceneMeshes, materialObj, config, pc, result, pre, orig>>

(* group.forEach, second half: the info's material is disposed unless it   *)
(* is the master; after the last info the merged material is pushed.       *)
MatDispose ==
  /\ pc = "mat_merge"
  /\ loc.gi <= Len(loc.groups)
  /\ loc.ii \in 1..Len(loc.groups[loc.gi])
  /\ loc.phase = "dispose"
  /\ LET group == loc.groups[loc.gi]
         info == group[loc.ii]
     IN  /\ materialObj' =
              IF DisposesMaterial(info.material, group[1].material)
                THEN [materialObj EXCEPT ![info.material].disposed = TRUE]
                ELSE materialObj
         /\ loc' = IF loc.ii = Len(group)
                     THEN [loc EXCEPT !.merged = Append(@, loc.cur), !.gi = @ + 1,
                                      !.ii = 0, !.phase = "repoint"]
                     ELSE [loc EXCEPT !.ii = @ + 1, !.phase = "repoint"]
  /\ UNCHANGED <<sceneMeshes, meshObj, config, pc, result, pre, orig>>

(* optimizeMaterials returns its OptimizationResult.                       *)
MatEnd ==
  /\ pc = "mat_merge"
  /\ loc.gi > Len(loc.groups)
  /\ result' = [kind |-> "mat", originalCount |-> loc.originalCount,
                optimizedCount |-> Len(loc.merged),
                removedCount |-> loc.originalCount - Len(loc.merged),
                materialGroups |-> loc.groups, mergedMaterials |-> loc.merged]
  /\ pc' = "mat_done"
  /\ UNCHANGED <<sceneMeshes, meshObj, materialObj, config, loc, pre, orig>>

MatConfigs ==
  { [colorThreshold |-> ColorThreshold, alphaThreshold |-> AlphaThreshold,
     metallicThreshold |-> MetallicThreshold, roughnessThreshold |-> RoughnessThreshold,
     compareTextures |-> ct, textureUrlComparison |-> TRUE] : ct \in BOOLEAN }

(* A scene is taken up to the order its material objects were created in:  *)
(* they are numbered in the order the meshes first use them.               *)
FirstUseOrder(mo) ==
  \A i \in DOMAIN mo :
    \/ mo[i].material = NoMaterial
    \/ mo[i].material = 1
    \/ \E j \in 1..(i - 1) : mo[j].material = mo[i].material - 1

(* The material objects of a loaded scene, as sequences of length n: the   *)
(* k-th has an id of its own or the id of the first (as the materials a    *)
(* loader creates under one name have); a material no mesh uses is one     *)
(* fixed material.                                                         *)
RECURSIVE LoadedMaterials(_, _)
LoadedMaterials(mo, n) ==
  IF n = 0 THEN {<<>>}
  ELSE LET used == \E m \in DOMAIN mo : mo[m].material = n
           choices == IF used
                        THEN {WithId(mat, id) : mat \in MatPalette, id \in {1, n}}
                        ELSE {WithId(StdMat(0, NoTexture), n)}
       IN  {Append(mats, mat) : mats \in LoadedMaterials(mo, n - 1), mat \in choices}

(* A scene of MaxMeshes meshes over MaxMats materials of the palette.      *)
InitMaterial ==
  /\ sceneMeshes = [i \in 1..MaxMeshes |-> i]
  /\ meshObj \in [1..MaxMeshes ->
       { MeshRec("Mesh", 1, mat, FALSE, FALSE, TRUE, RootNode, 3, {"position"}) :
           mat \in {NoMaterial} \cup (1..MaxMats) }]
  /\ FirstUseOrder(meshObj)
  /\ materialObj \in LoadedMaterials(meshObj, MaxMats)
  /\ config \in MatConfigs
  /\ pc = "mat_idle"
  /\ loc = NoLoc
  /\ result = NoResult
  /\ pre = [sceneMeshes |-> <<>>, meshObj |-> <<>>, materialObj |-> <<>>]
  /\ orig = Snapshot(sceneMeshes, meshObj, materialObj)

NextMaterial ==
  \/ MatBegin
  \/ MatKeepSingle
  \/ MatCreateMerged
  \/ MatRepoint
  \/ MatDispose
  \/ MatEnd

SpecMaterial == InitMaterial /\ [][NextMaterial]_vars

(***************************************************************************)
(* Properties of optimizeMaterials                                         *)
(***************************************************************************)
(* The materials the meshes of the scene referenced when the pass began.   *)
PreMaterials ==
  {pre.meshObj[m].material : m \in Range(pre.sceneMeshes)} \ {NoMaterial}

(* The ids of those materials: the materials the pass discovers.           *)
PreMaterialIds == {pre.materialObj[mat].id : mat \in PreMaterials}

(* The id of the material the mesh referenced when the pass began.         *)
PreIdOf(m) ==
  IF pre.meshObj[m].material = NoMaterial THEN 0
  ELSE pre.materialObj[pre.meshObj[m].material].id

(* The position in scene.meshes of the first mesh that referenced a        *)
(* material of this id.                                                    *)
Discovery(id) ==
  CHOOSE i \in 1..Len(pre.sceneMeshes) :
    /\ PreIdOf(pre.sceneMeshes[i]) = id
    /\ \A j \in 1..(i - 1) : PreIdOf(pre.sceneMeshes[j]) # id

ClusterMembers(group) == {group[j].material : j \in 1..Len(group)}

ClusterIds(group) == {pre.materialObj[mat].id : mat \in ClusterMembers(group)}

(* The meshes that referenced a member of the cluster, or a material of a  *)
(* member's id, when the pass began.                                       *)
ClusterMeshes(group) ==
  {m \in Range(pre.sceneMeshes) : PreIdOf(m) \in ClusterIds(group)}

MatRunning == pc \in {"mat_merge", "mat_done"}

(* C1: at every point of optimizeMaterials no mesh of the scene references *)
(* a disposed material, and every mesh that referenced a material the pass *)
(* has disposed now references a live material the pass created: the       *)
(* repointing of a member's meshes precedes the member's disposal.         *)
C1_NoMeshReferencesDisposedMaterial ==
  /\ \A i \in 1..Len(sceneMeshes) :
       LET mat == meshObj[sceneMeshes[i]].material
       IN  mat # NoMaterial => ~materialObj[mat].disposed
  /\ MatRunning =>
       \A d \in PreMaterials :
         materialObj[d].disposed =>
           \A m \in Range(pre.sceneMeshes) :
             pre.meshObj[m].material = d =>
               /\ meshObj[m].material > Len(pre.materialObj)
               /\ ~materialObj[meshObj[m].material].disposed

(* C1 witness: the pass has ended after disposing a material that a mesh   *)
(* referenced.                                                             *)
C1_Witness ==
  /\ pc = "mat_done"
  /\ \E d \in PreMaterials : materialObj[d].disposed

(* C2: optimizeMaterials returns optimizedCount equal to the number of     *)
(* clusters and originalCount equal to the number of material ids the      *)
(* meshes referenced, so their difference is the sum over clusters of (size - 1); *)
(* with one cluster of size k > 1 and the rest singletons optimizedCount   *)
(* is originalCount - (k - 1); and all meshes that referenced a member of  *)
(* a cluster of size > 1 reference one and the same live material.         *)
C2_OptimizedCountIsClusterCount ==
  pc = "mat_done" =>
    LET groups == result.materialGroups
        big == {g \in 1..Len(groups) : Len(groups[g]) > 1}
    IN  /\ result.optimizedCount = Len(groups)
        /\ result.originalCount = Cardinality(PreMaterialIds)
        /\ result.originalCount - result.optimizedCount
             = SumSeq([g \in 1..Len(groups) |-> Len(groups[g]) - 1])
        /\ Cardinality(big) = 1 =>
             \A g \in big :
               result.optimizedCount = result.originalCount - (Len(groups[g]) - 1)
        /\ \A g \in big :
             \E s \in DOMAIN materialObj :
               /\ ~materialObj[s].disposed
               /\ \A m \in ClusterMeshes(groups[g]) : meshObj[m].material = s

(* C2 witness: a finished pass with exactly one cluster of size > 1 and at *)
(* least one singleton cluster.                                            *)
C2_Witness ==
  /\ pc = "mat_done"
  /\ Cardinality({g \in 1..Len(result.materialGroups) :
                    Len(result.materialGroups[g]) > 1}) = 1
  /\ \E g \in 1..Len(result.materialGroups) : Len(result.materialGroups[g]) = 1

(* C3 as stated: after the pass every original material of a cluster of   *)
(* size > 1 is disposed, the cluster's first member included.              *)
C3_Original_AllClusterMaterialsDisposed ==
  pc = "mat_done" =>
    \A g \in 1..Len(result.materialGroups) :
      LET group == result.materialGroups[g]
      IN  Len(group) > 1 =>
            \A j \in 1..Len(group) : materialObj[group[j].material].disposed

(* C3 amended: after the pass every original material of a cluster of size *)
(* > 1 except the cluster's first member is disposed; the first member,    *)
(* from which the merged material was cloned, is not disposed.             *)
C3_AllButMasterDisposed ==
  pc = "mat_done" =>
    \A g \in 1..Len(result.materialGroups) :
      LET group == result.materialGroups[g]
      IN  Len(group) > 1 =>
            /\ \A j \in 2..Len(group) : materialObj[group[j].material].disposed
            /\ ~materialObj[group[1].material].disposed

(* C3 witness: a finished pass with a cluster of three materials.          *)
C3_Witness ==
  /\ pc = "mat_done"
  /\ \E g \in 1..Len(result.materialGroups) : Len(result.materialGroups[g]) >= 3

(* C4: the clusters partition the discovered materials, which the pass    *)
(* tells apart by id: every material id referenced by a mesh is in exactly  *)
(* one cluster, held there by the first material discovered under it; each *)
(* cluster's first member is the earliest-discovered material outside the  *)
(* earlier clusters; every other member passes the similarity test against *)
(* that first member.                                                      *)
C4_GreedyClusteringPartitions ==
  MatRunning =>
    LET groups == loc.groups
        places == UNION {{<<g, j>> : j \in 1..Len(groups[g])} : g \in 1..Len(groups)}
        idAt(p) == pre.materialObj[groups[p[1]][p[2]].material].id
    IN  /\ \A id \in PreMaterialIds :
             Cardinality({p \in places : idAt(p) = id}) = 1
        /\ \A p \in places :
             /\ idAt(p) \in PreMaterialIds
             /\ groups[p[1]][p[2]].material
                  = pre.meshObj[pre.sceneMeshes[Discovery(idAt(p))]].material
        /\ \A g \in 1..Len(groups) :
             \A id \in PreMaterialIds :
               (\A h \in 1..(g - 1) : id \notin ClusterIds(groups[h]))
                 => Discovery(idAt(<<g, 1>>)) <= Discovery(id)
        /\ \A g \in 1..Len(groups) :
             \A j \in 2..Len(groups[g]) :
               AreMaterialsSimilar(pre.materialObj[groups[g][1].material],
                                   pre.materialObj[groups[g][j].material], config)

(* C4 witness: a cluster holds two members that are not similar to each    *)
(* other.                                                                  *)
C4_Witness ==
  /\ MatRunning
  /\ \E g \in 1..Len(loc.groups) :
       \E i, j \in 2..Len(loc.groups[g]) :
         ~AreMaterialsSimilar(pre.materialObj[loc.groups[g][i].material],
                              pre.materialObj[loc.groups[g][j].material], config)

(***************************************************************************)
(* Scene operations of the engine                                          *)
(***************************************************************************)
(* The ids of geometries and materials are strings, held as sequences of   *)
(* characters.  Geometry and material ids come from the loaded file; they  *)
(* may contain any character, "_" included.                                *)
GeometryIdOf(g) ==
  IF g = 1 THEN <<"a">> ELSE IF g = 2 THEN <<"a", "_", "b">> ELSE <<"g">> \o IntChars(g)

MaterialIdOf(k) ==
  IF k = 1 THEN <<"c">>
  ELSE IF k = 2 THEN <<"b", "_", "c">>
  ELSE IF k > MultiIdBase THEN <<"mesh">> \o IntChars(k - MultiIdBase) \o <<"_", "merged">>
  ELSE IF k > MergedIdBase THEN <<"Merged", "_">> \o IntChars(k - MergedIdBase)
  ELSE <<"m">> \o IntChars(k)

(* scene.meshes without one mesh.                                          *)
RemoveMesh(ms, m) == SelectSeq(ms, LAMBDA x : x # m)

(* The parent reference to mesh m; NoNode and RootNode are the others.     *)
MeshNode(m) == RootNode + m

(* The live meshes a dispose of the meshes in by reaches next: their       *)
(* children, and the instances of a Mesh among them.                       *)
Owned(mo, by) ==
  {x \in DOMAIN mo :
     /\ ~mo[x].disposed
     /\ \E g \in by :
          \/ mo[x].parent = MeshNode(g)
          \/ /\ mo[g].kind = "Mesh"
             /\ mo[x].kind = "InstancedMesh"
             /\ mo[x].sourceMesh = g}

WithOwned(mo, by) == by \cup Owned(mo, by)

(* What one mesh.dispose() takes along: the children of a disposed mesh    *)
(* and the instances of a disposed Mesh, and theirs in turn.               *)
DisposeClosure(mo, gone) ==
  LET reach[k \in 0..Len(mo)] == IF k = 0 THEN gone ELSE WithOwned(mo, reach[k - 1])
  IN  reach[Len(mo)]

(* The scene once the meshes in gone are disposed: they leave              *)
(* scene.meshes and lose their parent and their geometry.                  *)
Disposed(mo, ms, gone) ==
  [meshObj |-> [x \in DOMAIN mo |->
                     IF x \in gone
                       THEN [mo[x] EXCEPT !.disposed = TRUE, !.parent = NoNode,
                                          !.geometry = NoGeometry]
                       ELSE mo[x]],
   sceneMeshes |-> SelectSeq(ms, LAMBDA x : x \notin gone)]

(* mesh.dispose(): the mesh goes, and it takes its children with it, and   *)
(* a Mesh its instances.  Returns the mesh objects and scene.meshes        *)
(* afterwards.                                                             *)
DisposeMesh(mo, ms, m) == Disposed(mo, ms, DisposeClosure(mo, {m}))

(***************************************************************************)
(* MeshInstancer                                                           *)
(***************************************************************************)
(* The group key template `${geometryId}_${materialId}`.                   *)
GroupKey(geometryId, materialId) == geometryId \o <<"_">> \o materialId

(* mesh.geometry.id || 'unknown' *)
InstGeometryId(mesh) ==
  IF GeometryIdOf(mesh.geometry) = <<>> THEN <<"unknown">> ELSE GeometryIdOf(mesh.geometry)

(* mesh.material?.id || 'no-material' *)
InstMaterialId(mesh, mats) ==
  IF mesh.material = NoMaterial \/ MaterialIdOf(mats[mesh.material].id) = <<>>
    THEN <<"no-material">>
    ELSE MaterialIdOf(mats[mesh.material].id)

(* The meshes _analyzeMeshes groups: a Mesh (not an InstancedMesh) with a  *)
(* geometry.                                                               *)
InstCandidate(mesh) == mesh.kind = "Mesh" /\ mesh.geometry # NoGeometry

(* The forEach of _analyzeMeshes: the groups in the order their keys are   *)
(* first met.                                                              *)
RECURSIVE AnalyzeMeshesFrom(_, _, _, _, _)
AnalyzeMeshesFrom(ms, mo, mats, i, groups) ==
  IF i > Len(ms) THEN groups
  ELSE LET m == ms[i]
           key == GroupKey(InstGeometryId(mo[m]), InstMaterialId(mo[m], mats))
       IN  IF ~InstCandidate(mo[m]) THEN AnalyzeMeshesFrom(ms, mo, mats, i + 1, groups)
           ELSE IF \E k \in 1..Len(groups) : groups[k].key = key
             THEN LET k == CHOOSE k \in 1..Len(groups) : groups[k].key = key
                  IN  AnalyzeMeshesFrom(ms, mo, mats, i + 1,
                        [groups EXCEPT ![k].meshes = Append(@, m)])
             ELSE AnalyzeMeshesFrom(ms, mo, mats, i + 1,
                    Append(groups,
                      [key |-> key, geometryId |-> InstGeometryId(mo[m]),
                       materialId |-> InstMaterialId(mo[m], mats), meshes |-> <<m>>,
                       instancedMesh |-> <<>>, masterMesh |-> NoMesh]))

(* Mutant: a group needs more than minInstanceCount meshes.                *)
AnalyzeMeshesAboveMinimum(ms, mo, mats, cfg) ==
  SelectSeq(AnalyzeMeshesFrom(ms, mo, mats, 1, <<>>),
            LAMBDA g : Len(g.meshes) > cfg.minInstanceCount)

(* _analyzeMeshes: the groups with at least minInstanceCount meshes.       *)
AnalyzeMeshes(ms, mo, mats, cfg) ==
  SelectSeq(AnalyzeMeshesFrom(ms, mo, mats, 1, <<>>),
            LAMBDA g : Len(g.meshes) >= cfg.minInstanceCount)

(* masterMesh.createInstance(..) followed by the copies of                 *)
(* _createInstanceGroups: the new InstancedMesh for one source mesh.       *)
NewInstance(master, source, cfg) ==
  [kind |-> "InstancedMesh", geometry |-> NoGeometry, material |-> NoMaterial,
   animated |-> FALSE, checkCollisions |-> source.checkCollisions,
   isVisible |-> source.isVisible, isPickable |-> source.isPickable,
   parent |-> IF cfg.preserveHierarchy /\ source.parent # NoNode
                THEN source.parent ELSE NoNode,
   sourceMesh |-> master, vertices |-> 0, attrs |-> {}, synth |-> {},
   disposed |-> FALSE,
   position |-> source.position, rotation |-> source.rotation,
   rotationQuaternion |-> NoQuaternion, scaling |-> source.scaling,
   buffers |-> NoBuffers, segments |-> <<>>]

(* Mutant: sourceMesh.dispose(true), which leaves the children alone.      *)
DisposeSourceNoRecurse(mo, ms, m) == Disposed(mo, ms, {m})

(* sourceMesh.dispose() at the end of the for loop's body.                 *)
DisposeSource(mo, ms, m) == DisposeMesh(mo, ms, m)

(* createInstances up to the first group.                                  *)
InstBegin ==
  /\ pc = "inst_idle"
  /\ loc' = [kind |-> "inst", groups |-> AnalyzeMeshes(sceneMeshes, meshObj, materialObj, config),
             originalMeshCount |-> Len(sceneMeshes), gi |-> 1, i |-> 2,
             instances |-> <<>>, instancedGroups |-> <<>>, copied |-> <<>>]
  /\ pre' = [sceneMeshes |-> sceneMeshes, meshObj |-> meshObj, materialObj |-> materialObj]
  /\ pc' = "inst_groups"
  /\ UNCHANGED <<sceneMeshes, meshObj, materialObj, config, result, orig>>

(* The instance is pushed, the scene being after the dispose; copied       *)
(* keeps the source mesh as the copies found it.                           *)
InstancePushed(after, instance, sourceMesh) ==
  /\ meshObj' = after.meshObj
  /\ sceneMeshes' = after.sceneMeshes
  /\ loc' = [loc EXCEPT !.instances = Append(@, instance), !.i = @ + 1,
                        !.copied = Append(@, sourceMesh)]

(* One turn of the for loop: an instance of the master replaces            *)
(* group.meshes[i], which is then disposed.                                *)
InstStep ==
  /\ pc = "inst_groups"
  /\ loc.gi <= Len(loc.groups)
  /\ loc.i <= Len(loc.groups[loc.gi].meshes)
  /\ InstancePushed(
       DisposeSource(
         Append(meshObj, NewInstance(loc.groups[loc.gi].meshes[1],
                                     meshObj[loc.groups[loc.gi].meshes[loc.i]], config)),
         Append(sceneMeshes, Len(meshObj) + 1),
         loc.groups[loc.gi].meshes[loc.i]),
       Len(meshObj) + 1,
       meshObj[loc.groups[loc.gi].meshes[loc.i]])
  /\ UNCHANGED <<materialObj, config, pc, result, pre, orig>>

(* After the for loop: the group gets its master and instances and is      *)
(* pushed to instancedGroups.                                              *)
InstGroupDone ==
  /\ pc = "inst_groups"
  /\ loc.gi <= Len(loc.groups)
  /\ loc.i > Len(loc.groups[loc.gi].meshes)
  /\ LET group == loc.groups[loc.gi]
     IN  loc' = [loc EXCEPT
                   !.instancedGroups =
                      Append(@, [group EXCEPT !.masterMesh = group.meshes[1],
                                              !.instancedMesh = loc.instances]),
                   !.gi = @ + 1, !.i = 2, !.instances = <<>>]
  /\ UNCHANGED <<sceneMeshes, meshObj, materialObj, config, pc, result, pre, orig>>

(* createInstances returns its InstancerResult.                            *)
InstEnd ==
  /\ pc = "inst_groups"
  /\ loc.gi > Len(loc.groups)
  /\ result' = [kind |-> "inst", originalMeshCount |-> loc.originalMeshCount,
                optimizedMeshCount |-> Len(sceneMeshes),
                instancedGroups |-> loc.instancedGroups,
                totalInstancesCreated |->
                  SumSeq([g \in 1..Len(loc.instancedGroups) |->
                            Len(loc.instancedGroups[g].instancedMesh)])]
  /\ pc' = "inst_done"
  /\ UNCHANGED <<sceneMeshes, meshObj, materialObj, config, loc, pre, orig>>

InstConfigs ==
  { [minInstanceCount |-> n, preserveHierarchy |-> ph, preserveAnimations |-> pa,
     mergeSubMeshes |-> FALSE] : n \in {2, 3}, ph \in BOOLEAN, pa \in BOOLEAN }

(* A scene of MaxMeshes meshes over two geometries and two materials.      *)
InitInstancer ==
  /\ sceneMeshes = [i \in 1..MaxMeshes |-> i]
  /\ meshObj \in [1..MaxMeshes ->
       { MeshRec("Mesh", g, mat, an, FALSE, TRUE, RootNode, 3, {"position"}) :
           g \in {1, 2}, mat \in {NoMaterial, 1, 2}, an \in BOOLEAN }]
  /\ materialObj = <<WithId(StdMat(0, NoTexture), 1), WithId(StdMat(40, NoTexture), 2)>>
  /\ config \in InstConfigs
  /\ pc = "inst_idle"
  /\ loc = NoLoc
  /\ result = NoResult
  /\ pre = [sceneMeshes |-> <<>>, meshObj |-> <<>>, materialObj |-> <<>>]
  /\ orig = Snapshot(sceneMeshes, meshObj, materialObj)

NextInstancer ==
  \/ InstBegin
  \/ InstStep
  \/ InstGroupDone
  \/ InstEnd

SpecInstancer == InitInstancer /\ [][NextInstancer]_vars

(***************************************************************************)
(* Properties of createInstances                                           *)
(***************************************************************************)
InstRunning == pc \in {"inst_groups", "inst_done"}

(* The meshes of the scene, as the pass found it, that own a geometry and  *)
(* are not instances.                                                      *)
PreCandidates == {m \in Range(pre.sceneMeshes) : InstCandidate(pre.meshObj[m])}

(* The candidates with the geometry id and the material id of m.           *)
SameGeometryAndMaterial(m) ==
  {x \in PreCandidates :
     /\ InstGeometryId(pre.meshObj[x]) = InstGeometryId(pre.meshObj[m])
     /\ InstMaterialId(pre.meshObj[x], pre.materialObj)
          = InstMaterialId(pre.meshObj[m], pre.materialObj)}

(* C5 as stated: a mesh that has animations is a member of no group built  *)
(* by the Instancer, whatever preserveAnimations is.                       *)
C5_Original_AnimatedNeverGrouped ==
  InstRunning =>
    \A g \in 1..Len(loc.groups) :
      \A m \in Range(loc.groups[g].meshes) : ~pre.meshObj[m].animated

(* C6 as stated: every instanced group of n meshes keeps its first mesh as *)
(* the one master and has n - 1 instances, and optimizedMeshCount is lower *)
(* than originalMeshCount by the sum of n - 1 over the groups.             *)
C6_Original_CountDropsByInstances ==
  pc = "inst_done" =>
    LET groups == result.instancedGroups
    IN  /\ \A g \in 1..Len(groups) :
             /\ groups[g].masterMesh = groups[g].meshes[1]
             /\ ~meshObj[groups[g].masterMesh].disposed
             /\ Len(groups[g].instancedMesh) = Len(groups[g].meshes) - 1
        /\ result.originalMeshCount - result.optimizedMeshCount
             = SumSeq([g \in 1..Len(groups) |-> Len(groups[g].meshes) - 1])

(* C7 as stated: a (geometry id, material id) group is instanced iff it    *)
(* has at least minInstanceCount members; a mesh of a smaller group is     *)
(* neither disposed nor replaced; when no group qualifies the mesh count   *)
(* is unchanged and no instance is created.                                *)
C7_Original_InstancedIffThreshold ==
  pc = "inst_done" =>
    /\ \A m \in PreCandidates :
         LET P == SameGeometryAndMaterial(m)
         IN  /\ (Cardinality(P) >= config.minInstanceCount)
                  <=> (\E g \in 1..Len(result.instancedGroups) :
                         Range(result.instancedGroups[g].meshes) = P)
             /\ Cardinality(P) < config.minInstanceCount =>
                  /\ ~meshObj[m].disposed
                  /\ m \in Range(sceneMeshes)
    /\ result.instancedGroups = <<>> =>
         /\ result.optimizedMeshCount = result.originalMeshCount
         /\ result.totalInstancesCreated = 0

(***************************************************************************)
(* MeshMerger                                                              *)
(***************************************************************************)
(* The vertex attribute kinds _normalizeVertexAttributes looks at, and the *)
(* ones _addMissingVertexAttribute can synthesize.                         *)
PositionKind == "position"

CommonAttributes == {"normal", "uv", "uv2", "color", "tangent"}

(* Mutant: _isMeshMergeable without its test of mesh.animations.          *)
IsMeshMergeableAnimated(mesh, cfg) ==
  /\ mesh.kind = "Mesh"
  /\ mesh.geometry # NoGeometry
  /\ ~(~cfg.mergeCollisionMeshes /\ mesh.checkCollisions)
  /\ mesh.isVisible

(* _isMeshMergeable *)
IsMeshMergeable(mesh, cfg) ==
  /\ mesh.kind = "Mesh"
  /\ mesh.geometry # NoGeometry
  /\ ~(~cfg.mergeCollisionMeshes /\ mesh.checkCollisions)
  /\ mesh.isVisible
  /\ ~mesh.animated

(* mesh.getTotalVertices() *)
TotalVertices(mesh) == IF mesh.geometry = NoGeometry THEN 0 ELSE mesh.vertices

(* The forEach of _analyzeMeshesByMaterial: one MaterialGroup per material *)
(* id, in the order the ids are first met.                                 *)
RECURSIVE AnalyzeByMaterialFrom(_, _, _, _, _, _)
AnalyzeByMaterialFrom(ms, mo, mats, i, groups, cfg) ==
  IF i > Len(ms) THEN groups
  ELSE LET m == ms[i]
           materialId == InstMaterialId(mo[m], mats)
       IN  IF ~IsMeshMergeable(mo[m], cfg)
             THEN AnalyzeByMaterialFrom(ms, mo, mats, i + 1, groups, cfg)
           ELSE IF \E k \in 1..Len(groups) : groups[k].materialId = materialId
             THEN LET k == CHOOSE k \in 1..Len(groups) : groups[k].materialId = materialId
                  IN  AnalyzeByMaterialFrom(ms, mo, mats, i + 1,
                        [groups EXCEPT ![k].meshes = Append(@, m),
                                       ![k].originalVertexCount = @ + TotalVertices(mo[m])],
                        cfg)
             ELSE AnalyzeByMaterialFrom(ms, mo, mats, i + 1,
                    Append(groups,
                      [materialId |-> materialId, material |-> mo[m].material,
                       meshes |-> <<m>>, mergedMesh |-> NoMesh,
                       originalVertexCount |-> TotalVertices(mo[m]),
                       mergedVertexCount |-> 0]),
                    cfg)

(* The filter of _analyzeMeshesByMaterial on one group: its meshes with a  *)
(* geometry of more than 0 vertices.                                       *)
ValidMeshes(group, mo) ==
  SelectSeq(group.meshes,
            LAMBDA m : mo[m].geometry # NoGeometry /\ TotalVertices(mo[m]) > 0)

(* _analyzeMeshesByMaterial *)
RECURSIVE FilterGroups(_, _)
FilterGroups(groups, mo) ==
  IF groups = <<>> THEN <<>>
  ELSE LET group == Head(groups)
           kept == [group EXCEPT !.meshes = ValidMeshes(group, mo)]
       IN  IF Len(group.meshes) <= 1 \/ Len(kept.meshes) <= 1
             THEN FilterGroups(Tail(groups), mo)
             ELSE <<kept>> \o FilterGroups(Tail(groups), mo)

AnalyzeMeshesByMaterial(ms, mo, mats, cfg) ==
  FilterGroups(AnalyzeByMaterialFrom(ms, mo, mats, 1, <<>>, cfg), mo)

(* _getMergeableMeshCount *)
MergeableMeshCount(ms, mo, cfg) ==
  Cardinality({i \in 1..Len(ms) : IsMeshMergeable(mo[ms[i]], cfg)})

(* Mutant: _splitIntoBatches that leaves out a last batch smaller than     *)
(* batchSize.                                                              *)
SplitIntoFullBatches(array, batchSize) ==
  [b \in 1..(Len(array) \div batchSize) |->
     SubSeq(array, (b - 1) * batchSize + 1, b * batchSize)]

(* _splitIntoBatches, for a batch size of at least 1.                      *)
RECURSIVE SplitIntoBatches(_, _)
SplitIntoBatches(array, batchSize) ==
  IF array = <<>> THEN <<>>
  ELSE IF Len(array) <= batchSize THEN <<array>>
  ELSE <<SubSeq(array, 1, batchSize)>>
         \o SplitIntoBatches(SubSeq(array, batchSize + 1, Len(array)), batchSize)

(* The floats per vertex of the kinds _addMissingVertexAttribute knows.    *)
Components(kind) ==
  CASE kind = "normal" -> 3
    [] kind \in {"uv", "uv2"} -> 2
    [] kind \in {"color", "tangent"} -> 4

(* Mutant: a default normal along z.                                       *)
DefaultVertexForward(kind) ==
  CASE kind = "normal" -> <<0, 0, 1>>
    [] kind \in {"uv", "uv2"} -> <<0, 0>>
    [] kind = "color" -> <<1, 1, 1, 1>>
    [] kind = "tangent" -> <<1, 0, 0, 1>>

(* The default _addMissingVertexAttribute writes for each vertex.          *)
DefaultVertex(kind) ==
  CASE kind = "normal" -> <<0, 1, 0>>
    [] kind \in {"uv", "uv2"} -> <<0, 0>>
    [] kind = "color" -> <<1, 1, 1, 1>>
    [] kind = "tangent" -> <<1, 0, 0, 1>>

(* defaultData of _addMissingVertexAttribute for vertexCount vertices.     *)
DefaultData(kind, vertexCount) ==
  [i \in 1..(vertexCount * Components(kind)) |->
     DefaultVertex(kind)[((i - 1) % Components(kind)) + 1]]

(* _addMissingVertexAttribute for each of the kinds in added.              *)
WithDefaults(mesh, added) ==
  [mesh EXCEPT !.attrs = @ \cup added, !.synth = @ \cup added,
               !.buffers = [kind \in DOMAIN @ \cup added |->
                              IF kind \in added
                                THEN DefaultData(kind, TotalVertices(mesh))
                                ELSE @[kind]]]

(* The kinds of allAttributes the mesh lacks and                           *)
(* _addMissingVertexAttribute can supply.                                  *)
MissingAttributes(mesh, allAttributes) ==
  (allAttributes \ mesh.attrs) \cap CommonAttributes

(* The second forEach of _normalizeVertexAttributes.                       *)
NormalizedTo(mo, meshes, allAttributes) ==
  [m \in DOMAIN mo |->
     IF m \in Range(meshes) /\ mo[m].geometry # NoGeometry /\ TotalVertices(mo[m]) # 0
       THEN WithDefaults(mo[m], MissingAttributes(mo[m], allAttributes))
       ELSE mo[m]]

(* _normalizeVertexAttributes with _addMissingVertexAttribute: every mesh  *)
(* of the group that has a geometry and vertices gets a default buffer for *)
(* each synthesizable kind another member has.                             *)
NormalizeVertexAttributes(mo, meshes) ==
  NormalizedTo(mo, meshes,
    UNION {mo[m].attrs \cap ({PositionKind} \cup CommonAttributes) :
             m \in {x \in Range(meshes) : mo[x].geometry # NoGeometry}})

(* Whether BABYLON.Mesh.MergeMeshes can concatenate the meshes: it throws  *)
(* "Positions are required" for a source without a geometry holding        *)
(* positions, and "Cannot merge vertex data that do not have the same set  *)
(* of attributes" unless all sources hold the same attribute kinds.        *)
CanConcatenate(mo, meshes) ==
  /\ \A m \in Range(meshes) : mo[m].geometry # NoGeometry /\ PositionKind \in mo[m].attrs
  /\ \A m1, m2 \in Range(meshes) : mo[m1].attrs = mo[m2].attrs

(* The material MergeMeshes(.., multiMultiMaterials = true) gives the new  *)
(* mesh: a fresh MultiMaterial.                                            *)
MultiMaterial(source) ==
  [id |-> MultiIdBase + source, cls |-> "MultiMaterial", diffuse |-> NoColor, specular |-> NoColor,
   emissive |-> NoColor, albedo |-> NoColor, metallic |-> 0, roughness |-> 0,
   alpha |-> 100, textures |-> <<NoTexture, NoTexture, NoTexture, NoTexture, NoTexture>>,
   disposed |-> FALSE]

(* mesh.dispose() for each of the meshes in turn, on the scene             *)
(* [meshObj, sceneMeshes].                                                 *)
RECURSIVE DisposeAllIn(_, _)
DisposeAllIn(scene, meshes) ==
  IF meshes = <<>> THEN scene
  ELSE DisposeAllIn(IF scene.meshObj[Head(meshes)].disposed
                      THEN scene
                      ELSE DisposeMesh(scene.meshObj, scene.sceneMeshes, Head(meshes)),
                    Tail(meshes))

DisposeAll(mo, ms, meshes) == DisposeAllIn([meshObj |-> mo, sceneMeshes |-> ms], meshes)

(* A buffer of the source as MergeMeshes appends it: normals and tangents  *)
(* are turned by the world matrix of the source, a quarter turn about z    *)
(* taking (x, y, z) to (-y, x, z).                                         *)
RECURSIVE Turned(_, _, _)
Turned(data, components, turns) ==
  IF turns = 0 THEN data
  ELSE Turned([i \in 1..Len(data) |->
                 CASE (i - 1) % components = 0 -> 0 - data[i + 1]
                   [] (i - 1) % components = 1 -> data[i - 1]
                   [] OTHER -> data[i]],
              components, turns - 1)

(* The part of the merged geometry that comes from one source: its vertex  *)
(* count and, for the kinds that were synthesized, its data.               *)
Segment(source) ==
  [vertices |-> TotalVertices(source),
   buffers |-> [kind \in DOMAIN source.buffers |->
                  IF kind \in {"normal", "tangent"}
                    THEN Turned(source.buffers[kind], Components(kind), Orientation(source))
                    ELSE source.buffers[kind]]]

(* The Mesh that MergeMeshes creates from the sources: it has the          *)
(* concatenated geometry and is configured like the first source.          *)
NewMergedMesh(mo, mats, meshes) ==
  [kind |-> "Mesh", geometry |-> Len(mo) + 3,
   material |-> Len(mats) + 1, animated |-> FALSE,
   checkCollisions |-> mo[meshes[1]].checkCollisions, isVisible |-> TRUE,
   isPickable |-> TRUE, parent |-> NoNode, sourceMesh |-> NoMesh,
   vertices |-> SumSeq([k \in 1..Len(meshes) |-> TotalVertices(mo[meshes[k]])]),
   attrs |-> mo[meshes[1]].attrs,
   synth |-> UNION {mo[m].synth : m \in Range(meshes)},
   disposed |-> FALSE,
   position |-> 0, rotation |-> 0, rotationQuaternion |-> NoQuaternion, scaling |-> 1,
   buffers |-> NoBuffers,
   segments |-> [k \in 1..Len(meshes) |-> Segment(mo[meshes[k]])]]

(* What MergeMeshes returns with, the scene being after.                   *)
MergeMeshesReturn(after, mats, meshes, merged) ==
  [outcome |-> "ok", meshObj |-> after.meshObj, sceneMeshes |-> after.sceneMeshes,
   materialObj |-> Append(mats, MultiMaterial(meshes[1])), mergedMesh |-> merged]

(* BABYLON.Mesh.MergeMeshes(meshes, disposeSource, ..): a new Mesh holding *)
(* the concatenated geometry is added to the scene; with disposeSource the *)
(* source meshes are disposed.  outcome is "ok" or "throw".                *)
MergeMeshesCall(mo, ms, mats, meshes, disposeSource) ==
  IF ~CanConcatenate(mo, meshes)
    THEN [outcome |-> "throw", meshObj |-> mo, sceneMeshes |-> ms, materialObj |-> mats,
          mergedMesh |-> NoMesh]
    ELSE MergeMeshesReturn(
           IF disposeSource
             THEN DisposeAll(Append(mo, NewMergedMesh(mo, mats, meshes)),
                             Append(ms, Len(mo) + 1), meshes)
             ELSE [meshObj |-> Append(mo, NewMergedMesh(mo, mats, meshes)),
                   sceneMeshes |-> Append(ms, Len(mo) + 1)],
           mats, meshes, Len(mo) + 1)

(* The disposeSource argument _mergeMeshGroup passes to MergeMeshes.       *)
DisposeSourceArgument(cfg) == TRUE

(* Mutant: _mergeMeshGroup without its try/catch.                          *)
CatchesMergeErrorNot(outcome) == FALSE

(* _mergeMeshGroup's catch: an error of the merge is logged and turned     *)
(* into a null result.                                                     *)
CatchesMergeError(outcome) == outcome = "throw"

(* mergedMesh.material = group.material, if the group has a material.     *)
MaterialAssigned(call, group) ==
  IF group.material # NoMaterial
    THEN [call EXCEPT !.meshObj[call.mergedMesh].material = group.material]
    ELSE call

(* The call's result on the scene [meshObj, sceneMeshes].                  *)
OnScene(call, scene) ==
  [call EXCEPT !.meshObj = scene.meshObj, !.sceneMeshes = scene.sceneMeshes]

(* Unless preserveOriginalMeshes, every mesh of the group is disposed.     *)
OriginalsDisposed(call, group, cfg) ==
  IF ~cfg.preserveOriginalMeshes
    THEN OnScene(call, DisposeAll(call.meshObj, call.sceneMeshes, group.meshes))
    ELSE call

(* The merged mesh gets isPickable and checkCollisions of firstMesh, and   *)
(* with respectHierarchy its parent, if it has one.                        *)
FirstMeshCopied(call, firstMesh, cfg) ==
  [meshObj |->
     [call.meshObj EXCEPT
        ![call.mergedMesh].isPickable = firstMesh.isPickable,
        ![call.mergedMesh].checkCollisions = firstMesh.checkCollisions,
        ![call.mergedMesh].parent =
           IF cfg.respectHierarchy /\ firstMesh.parent # NoNode
             THEN firstMesh.parent ELSE @],
   sceneMeshes |-> call.sceneMeshes,
   materialObj |-> call.materialObj, mergedMesh |-> call.mergedMesh,
   raised |-> FALSE, reads |-> <<firstMesh>>]

(* const firstMesh = group.meshes[0], as the statements that copy from it  *)
(* find it.                                                                *)
FirstMeshRead(call, group, cfg) ==
  FirstMeshCopied(call, call.meshObj[group.meshes[1]], cfg)

(* _mergeMeshGroup once MergeMeshes returned or threw.                     *)
MergeMeshesReturned(call, group, cfg) ==
  IF call.outcome = "throw"
    THEN [meshObj |-> call.meshObj, sceneMeshes |-> call.sceneMeshes,
          materialObj |-> call.materialObj, mergedMesh |-> NoMesh,
          raised |-> ~CatchesMergeError(call.outcome), reads |-> <<>>]
    ELSE FirstMeshRead(OriginalsDisposed(MaterialAssigned(call, group), group, cfg),
                       group, cfg)

(* _mergeMeshGroup: the scene afterwards, the merged mesh (or NoMesh),     *)
(* whether an error leaves the method, and reads: group.meshes[0] as the   *)
(* statements that copy its flags and parent find it.                      *)
MergeMeshGroup(mo, ms, mats, group, cfg) ==
  MergeMeshesReturned(
    MergeMeshesCall(NormalizeVertexAttributes(mo, group.meshes), ms, mats, group.meshes,
                    DisposeSourceArgument(cfg)),
    group, cfg)

(* mergeMeshes, up to the call of _mergeMaterialGroups.                    *)
MergeBegin ==
  /\ pc = "merge_idle"
  /\ pc' = "merge_groups"
  /\ loc' = [kind |-> "merge",
             groups |-> AnalyzeMeshesByMaterial(sceneMeshes, meshObj, materialObj, config),
             originalMeshCount |-> MergeableMeshCount(sceneMeshes, meshObj, config),
             gi |-> 1, bi |-> 0, batches |-> <<>>, mergedGroups |-> <<>>,
             reads |-> <<>>, si |-> 0]
  /\ pre' = [sceneMeshes |-> sceneMeshes, meshObj |-> meshObj, materialObj |-> materialObj]
  /\ UNCHANGED <<sceneMeshes, meshObj, materialObj, config, result, orig>>

(* Mutant: the group gets its mergedMesh but not its mergedVertexCount.    *)
MergedEntryUncounted(group, r) ==
  IF r.mergedMesh # NoMesh THEN [group EXCEPT !.mergedMesh = r.mergedMesh] ELSE group

(* The group as pushed to mergedGroups after _mergeMeshGroup returned.     *)
MergedEntry(group, r) ==
  IF r.mergedMesh # NoMesh
    THEN [group EXCEPT !.mergedMesh = r.mergedMesh,
                       !.mergedVertexCount = TotalVertices(r.meshObj[r.mergedMesh])]
    ELSE group

(* The scene is as _mergeMeshGroup left it.                                *)
SceneAfter(r) ==
  /\ meshObj' = r.meshObj
  /\ sceneMeshes' = r.sceneMeshes
  /\ materialObj' = r.materialObj

(* The group is pushed and the forEach goes on.                            *)
WholeGroupPushed(r, group) ==
  /\ SceneAfter(r)
  /\ loc' = [loc EXCEPT
               !.mergedGroups = Append(@, IF r.raised THEN group ELSE MergedEntry(group, r)),
               !.reads = @ \o r.reads,
               !.gi = @ + 1]

(* One round of the forEach of _mergeMaterialGroups for a group within     *)
(* mergeLimitPerGroup.  An error leaving _mergeMeshGroup would end in the  *)
(* catch, which pushes the group as it is.                                 *)
MergeWholeGroup ==
  /\ pc = "merge_groups"
  /\ loc.gi <= Len(loc.groups)
  /\ Len(loc.groups[loc.gi].meshes) <= config.mergeLimitPerGroup
  /\ WholeGroupPushed(
       MergeMeshGroup(meshObj, sceneMeshes, materialObj, loc.groups[loc.gi], config),
       loc.groups[loc.gi])
  /\ UNCHANGED <<config, pc, result, pre, orig>>

(* A group over mergeLimitPerGroup is split into batches.                  *)
MergeSplit ==
  /\ pc = "merge_groups"
  /\ loc.gi <= Len(loc.groups)
  /\ loc.bi = 0
  /\ Len(loc.groups[loc.gi].meshes) > config.mergeLimitPerGroup
  /\ config.mergeLimitPerGroup >= 1
  /\ loc' = [loc EXCEPT
               !.batches = SplitIntoBatches(loc.groups[loc.gi].meshes,
                                            config.mergeLimitPerGroup),
               !.bi = 1]
  /\ UNCHANGED <<sceneMeshes, meshObj, materialObj, config, pc, result, pre, orig>>

(* array.slice(start, end) of JavaScript: indices from 0, a negative one   *)
(* counted from the end.                                                   *)
SliceIndex(array, k) ==
  IF k < 0 THEN (IF Len(array) + k < 0 THEN 0 ELSE Len(array) + k)
  ELSE IF k > Len(array) THEN Len(array) ELSE k

Slice(array, start, end) ==
  SubSeq(array, SliceIndex(array, start) + 1, SliceIndex(array, end))

(* The for loop of _splitIntoBatches with a batchSize below 1: one turn    *)
(* pushes array.slice(i, i + batchSize) and adds batchSize to i, which     *)
(* never reaches array.length.  The model follows MaxSplitSteps turns.     *)
MergeSplitTurn ==
  /\ pc = "merge_groups"
  /\ loc.gi <= Len(loc.groups)
  /\ loc.bi = 0
  /\ Len(loc.groups[loc.gi].meshes) > config.mergeLimitPerGroup
  /\ config.mergeLimitPerGroup < 1
  /\ loc.si < Len(loc.groups[loc.gi].meshes)
  /\ Len(loc.batches) < MaxSplitSteps
  /\ loc' = [loc EXCEPT
               !.batches = Append(@, Slice(loc.groups[loc.gi].meshes, loc.si,
                                           loc.si + config.mergeLimitPerGroup)),
               !.si = @ + config.mergeLimitPerGroup]
  /\ UNCHANGED <<sceneMeshes, meshObj, materialObj, config, pc, result, pre, orig>>

(* The MaterialGroup made for batch batchIndex (from 0) of the group.      *)
BatchGroup(group, batch, batchIndex, mo) ==
  [materialId |-> group.materialId \o <<"_", "b", "a", "t", "c", "h", "_">>
                    \o IntChars(batchIndex),
   material |-> group.material,
   meshes |-> batch,
   mergedMesh |-> NoMesh,
   originalVertexCount |-> SumSeq([k \in 1..Len(batch) |-> TotalVertices(mo[batch[k]])]),
   mergedVertexCount |-> 0]

(* The batch group is pushed; the forEach of the batches goes on or, as    *)
(* last says, the forEach of the groups does.                              *)
BatchPushed(r, group, batchGroup, last) ==
  /\ SceneAfter(r)
  /\ loc' = [loc EXCEPT
               !.mergedGroups =
                  Append(@, IF r.raised THEN group ELSE MergedEntry(batchGroup, r)),
               !.reads = @ \o r.reads,
               !.bi = IF last THEN 0 ELSE @ + 1,
               !.batches = IF last THEN <<>> ELSE @,
               !.gi = IF last THEN @ + 1 ELSE @]

(* The batch group is merged and pushed.                                   *)
BatchMerged(r, group, batchGroup) ==
  BatchPushed(r, group, batchGroup, r.raised \/ loc.bi = Len(loc.batches))

(* The batch group is handed to _mergeMeshGroup.                           *)
BatchTaken(group, batchGroup) ==
  BatchMerged(MergeMeshGroup(meshObj, sceneMeshes, materialObj, batchGroup, config),
              group, batchGroup)

(* One round of batches.forEach.  An error leaving _mergeMeshGroup would   *)
(* leave the batches behind and end in the catch of the group.             *)
MergeBatch ==
  /\ pc = "merge_groups"
  /\ loc.gi <= Len(loc.groups)
  /\ loc.bi >= 1
  /\ BatchTaken(loc.groups[loc.gi],
                BatchGroup(loc.groups[loc.gi], loc.batches[loc.bi], loc.bi - 1, meshObj))
  /\ UNCHANGED <<config, pc, result, pre, orig>>

(* mergeMeshes, after _mergeMaterialGroups returned.                       *)
MergeEnd ==
  /\ pc = "merge_groups"
  /\ loc.gi > Len(loc.groups)
  /\ pc' = "merge_done"
  /\ result' =
       [kind |-> "merge",
        originalMeshCount |-> loc.originalMeshCount,
        mergedMeshCount |->
          Cardinality({k \in 1..Len(loc.mergedGroups) :
                         loc.mergedGroups[k].mergedMesh # NoMesh}),
        materialGroups |-> loc.mergedGroups,
        totalVertexReduction |->
          SumSeq([k \in 1..Len(loc.mergedGroups) |->
                    loc.mergedGroups[k].originalVertexCount
                      - loc.mergedGroups[k].mergedVertexCount])]
  /\ UNCHANGED <<sceneMeshes, meshObj, materialObj, config, loc, pre, orig>>

(* The MergerConfig values: the defaults, with preserveOriginalMeshes and  *)
(* a small mergeLimitPerGroup switched.                                    *)
MergeLimitDefault == 1000

MergeLimitSmall == 2

MergeConfigs ==
  { [preserveOriginalMeshes |-> po, mergeLimitPerGroup |-> lim,
     respectHierarchy |-> TRUE, mergeCollisionMeshes |-> FALSE,
     createBoundingBoxes |-> TRUE] :
      po \in BOOLEAN, lim \in {MergeLimitSmall, MergeLimitDefault} }

(* The vertex attribute sets of the loaded meshes; "uv3" is a kind the     *)
(* normalization does not look at.                                         *)
AttrPalette ==
  { {PositionKind}, {PositionKind, "normal", "uv"}, {PositionKind, "uv3"} }

(* A scene of MaxMergeMeshes visible, unanimated meshes over one material  *)
(* and no material, some of them collidable.                               *)
InitMerger ==
  /\ sceneMeshes = [i \in 1..MaxMergeMeshes |-> i]
  /\ meshObj \in [1..MaxMergeMeshes ->
       { MeshRec("Mesh", 1, mat, FALSE, FALSE, TRUE, RootNode, 3, attrs) :
           mat \in {NoMaterial, 1}, attrs \in AttrPalette }
       \cup
       { MeshRec("Mesh", 1, 1, FALSE, TRUE, TRUE, RootNode, 3, {PositionKind}) }]
  /\ materialObj = <<WithId(StdMat(0, NoTexture), 1)>>
  /\ config \in MergeConfigs
  /\ pc = "merge_idle"
  /\ loc = NoLoc
  /\ result = NoResult
  /\ pre = [sceneMeshes |-> <<>>, meshObj |-> <<>>, materialObj |-> <<>>]
  /\ orig = Snapshot(sceneMeshes, meshObj, materialObj)

NextMerger ==
  \/ MergeBegin
  \/ MergeWholeGroup
  \/ MergeSplit
  \/ MergeBatch
  \/ MergeEnd

SpecMerger == InitMerger /\ [][NextMerger]_vars

(***************************************************************************)
(* Properties of mergeMeshes                                               *)
(***************************************************************************)
MergeDone == pc = "merge_done"

(* The entries of the result whose merge failed / succeeded.               *)
FailedEntries ==
  {k \in 1..Len(result.materialGroups) : result.materialGroups[k].mergedMesh = NoMesh}

MergedEntries ==
  {k \in 1..Len(result.materialGroups) : result.materialGroups[k].mergedMesh # NoMesh}

(* C8: with preserveOriginalMeshes = true no source mesh of a merged group *)
(* is disposed: each is still alive and in scene.meshes when mergeMeshes   *)
(* returns.                                                                *)
C8_Original_PreservedSourcesNotDisposed ==
  (MergeDone /\ config.preserveOriginalMeshes) =>
    \A k \in MergedEntries :
      \A m \in Range(result.materialGroups[k].meshes) :
        /\ ~meshObj[m].disposed
        /\ m \in Range(sceneMeshes)

(* C9: when the concatenation of a group fails, its source meshes are left *)
(* untouched: none is disposed and none has an attribute buffer it did not *)
(* have before the pass.                                                   *)
C9_Original_FailedSourcesUntouched ==
  MergeDone =>
    \A k \in FailedEntries :
      \A m \in Range(result.materialGroups[k].meshes) :
        /\ ~meshObj[m].disposed
        /\ m \in Range(sceneMeshes)
        /\ meshObj[m].attrs = pre.meshObj[m].attrs

(* The batches _mergeMaterialGroups has to process, from the groups of the *)
(* analysis: a group within the limit as it is, a larger one cut into runs *)
(* of mergeLimitPerGroup meshes.                                           *)
RECURSIVE ExpectedBatches(_)
ExpectedBatches(groups) ==
  IF groups = <<>> THEN <<>>
  ELSE LET meshes == Head(groups).meshes
           n == Len(meshes)
           lim == config.mergeLimitPerGroup
           count == (n + lim - 1) \div lim
       IN  IF n <= lim
             THEN <<meshes>> \o ExpectedBatches(Tail(groups))
             ELSE [b \in 1..count |->
                     [j \in 1..(IF b * lim <= n THEN lim ELSE n - (b - 1) * lim) |->
                        meshes[(b - 1) * lim + j]]]
                  \o ExpectedBatches(Tail(groups))

(* C10: a failed merge does not abort mergeMeshes.  The pass is always     *)
(* either under way or returned with a MergeResult; the result has exactly *)
(* one entry for every group and batch of the analysis, in order, so every *)
(* group and batch after a failed one was processed; an entry without a    *)
(* mergedMesh holds meshes that are all still in the scene, an entry with  *)
(* one holds a live merged mesh of the scene.                              *)
C10_FailureDoesNotAbort ==
  /\ pc \in {"merge_idle", "merge_groups", "merge_done"}
  /\ MergeDone =>
       /\ result.kind = "merge"
       /\ [k \in 1..Len(result.materialGroups) |-> result.materialGroups[k].meshes]
            = ExpectedBatches(loc.groups)
       /\ \A k \in FailedEntries :
            \A m \in Range(result.materialGroups[k].meshes) : m \in Range(sceneMeshes)
       /\ \A k \in MergedEntries :
            /\ result.materialGroups[k].mergedMesh \in Range(sceneMeshes)
            /\ ~meshObj[result.materialGroups[k].mergedMesh].disposed
       /\ result.mergedMeshCount = Cardinality(MergedEntries)

(* A pass returned in which the merge of one batch failed and a later      *)
(* batch, and a later group, were merged.                                  *)
C10_Witness ==
  /\ MergeDone
  /\ \E k \in FailedEntries : \E j \in MergedEntries : k < j
  /\ config.mergeLimitPerGroup = MergeLimitSmall
  /\ Len(result.materialGroups) > Len(loc.groups)

(* C11 as stated: the first member's pickable and collidable flags and its *)
(* parent are copied onto the merged mesh before any source mesh of the    *)
(* batch is disposed: the first member is never read when disposed, and    *)
(* with respectHierarchy the merged mesh has the parent the first member   *)
(* had.                                                                    *)
C11_Original_CopiedBeforeDispose ==
  pc \in {"merge_groups", "merge_done"} =>
    /\ \A k \in 1..Len(loc.reads) : ~loc.reads[k].disposed
    /\ \A k \in 1..Len(loc.mergedGroups) :
         LET entry == loc.mergedGroups[k]
             first == pre.meshObj[entry.meshes[1]]
         IN  entry.mergedMesh # NoMesh =>
               /\ meshObj[entry.mergedMesh].isPickable = first.isPickable
               /\ meshObj[entry.mergedMesh].checkCollisions = first.checkCollisions
               /\ config.respectHierarchy =>
                    meshObj[entry.mergedMesh].parent = first.parent

(***************************************************************************)
(* BabylonCore.optimizeScene                                               *)
(***************************************************************************)
(* Mutant: optimizeScene calling mergeMeshes before createMeshInstances.   *)
StageAfterMergeFirst(p) ==
  CASE p = "mat_done" -> "merge_idle"
    [] p = "merge_done" -> "inst_idle"
    [] p = "inst_done" -> "stats_idle"

(* The call optimizeScene makes once the call at p has returned: after     *)
(* optimizeSceneMaterials createMeshInstances, then mergeMeshes, then      *)
(* printSceneStatistics.                                                   *)
StageAfter(p) ==
  CASE p = "mat_done" -> "inst_idle"
    [] p = "inst_done" -> "merge_idle"
    [] p = "merge_done" -> "stats_idle"

(* optimizeScene goes on to its next call.                                 *)
SceneAdvance ==
  /\ pc \in {"mat_done", "inst_done", "merge_done"}
  /\ pc' = StageAfter(pc)
  /\ UNCHANGED <<sceneMeshes, meshObj, materialObj, config, loc, result, pre, orig>>

(* scene.materials: the materials that are not disposed.  scene.textures:  *)
(* the textures the materials were created with (disposing a material      *)
(* leaves its textures).                                                   *)
SceneMaterials(mats) == SelectSeq(mats, LAMBDA m : ~m.disposed)

RECURSIVE SceneTextures(_)
SceneTextures(mats) ==
  IF mats = <<>> THEN <<>>
  ELSE SelectSeq(Head(mats).textures, LAMBDA t : t # NoTexture) \o SceneTextures(Tail(mats))

(* The meshes the geometry, triangle and memory statistics count: a Mesh   *)
(* with a geometry.  The geometries of the model are triangle lists with   *)
(* one index per vertex.                                                   *)
StatMeshes(ms, mo) ==
  SelectSeq(ms, LAMBDA m : mo[m].kind \in {"Mesh"} /\ mo[m].geometry # NoGeometry)

TotalIndices(mesh) == mesh.vertices

(* Mutant: the set of texture uids is kept from one call to the next.      *)
KeptSet(previous) == IF previous.kind = "stats" THEN previous.uniqueTextures ELSE {}

(* new Set<string>(): the set of uids a call starts from.                  *)
NewSet(previous) == {}

(* The uids the forEach over scene.textures adds to the set.               *)
AddedUids(textures, set) == {textures[k].uid : k \in 1..Len(textures)} \ set

(* SceneStats.getStatistics; the objects of the scene that are nodes are   *)
(* its meshes and transform nodes.  Texture sizes are 2 x 2.               *)
GetStatistics(ms, mo, mats, set) ==
  [materialCount |-> Len(SceneMaterials(mats)),
   geometryCount |-> Len(StatMeshes(ms, mo)),
   totalTriangles |->
     SumSeq([k \in 1..Len(StatMeshes(ms, mo)) |->
               IF TotalIndices(mo[StatMeshes(ms, mo)[k]]) > 0
                 THEN TotalIndices(mo[StatMeshes(ms, mo)[k]]) \div 3 ELSE 0]),
   textureCount |-> Cardinality(AddedUids(SceneTextures(mats), set)),
   meshCount |-> Len(ms),
   nodeCount |-> Len(ms) + Cardinality({x \in DOMAIN mo : mo[x].kind = "TransformNode"
                                                          /\ ~mo[x].disposed}),
   memoryUsage |->
     [vertices |-> SumSeq([k \in 1..Len(StatMeshes(ms, mo)) |->
                             mo[StatMeshes(ms, mo)[k]].vertices * 32]),
      indices |-> SumSeq([k \in 1..Len(StatMeshes(ms, mo)) |->
                            TotalIndices(mo[StatMeshes(ms, mo)[k]]) * 4]),
      textures |-> Cardinality(AddedUids(SceneTextures(mats), set)) * 2 * 2 * 4]]

(* What a call of getStatistics leaves: the statistics it returns and,     *)
(* for the next call to be compared, the set of uids it worked with.       *)
StatisticsReturned(stats, set, textures) ==
  [kind |-> "stats", stats |-> stats, uniqueTextures |-> set \cup AddedUids(textures, set)]

(* printSceneStatistics: SceneStats.getStatistics reads the scene.         *)
SceneStatistics ==
  /\ pc = "stats_idle"
  /\ pc' = "stats_done"
  /\ result' = StatisticsReturned(GetStatistics(sceneMeshes, meshObj, materialObj,
                                                NewSet(result)),
                                  NewSet(result), SceneTextures(materialObj))
  /\ UNCHANGED <<sceneMeshes, meshObj, materialObj, config, loc, pre, orig>>

(* printSceneStatistics called once more.                                  *)
SceneStatisticsAgain ==
  /\ pc = "stats_done"
  /\ pc' = "stats_twice"
  /\ loc' = [kind |-> "stats", first |-> result.stats]
  /\ result' = StatisticsReturned(GetStatistics(sceneMeshes, meshObj, materialObj,
                                                NewSet(result)),
                                  NewSet(result), SceneTextures(materialObj))
  /\ UNCHANGED <<sceneMeshes, meshObj, materialObj, config, pre, orig>>

(* The three configurations optimizeScene hands on, as one record: the     *)
(* defaults, with minInstanceCount 3 and a small mergeLimitPerGroup        *)
(* switched.                                                               *)
SceneConfigs ==
  { [colorThreshold |-> ColorThreshold, alphaThreshold |-> AlphaThreshold,
     metallicThreshold |-> MetallicThreshold, roughnessThreshold |-> RoughnessThreshold,
     compareTextures |-> TRUE, textureUrlComparison |-> TRUE,
     minInstanceCount |-> n, preserveHierarchy |-> TRUE, preserveAnimations |-> FALSE,
     mergeSubMeshes |-> FALSE,
     preserveOriginalMeshes |-> FALSE, mergeLimitPerGroup |-> MergeLimitSmall,
     respectHierarchy |-> TRUE, mergeCollisionMeshes |-> FALSE,
     createBoundingBoxes |-> TRUE] : n \in {2, 3} }

(* The parents of n meshes in a scene graph: the root node or a            *)
(* neighbouring mesh, without cycles.                                      *)
SceneParents(n) ==
  { parent \in [1..n -> {RootNode} \cup {MeshNode(j) : j \in 1..n}] :
      /\ \A i \in 1..n : parent[i] \in {RootNode, MeshNode(i - 1), MeshNode(i + 1)}
      /\ \A i \in 1..(n - 1) :
           ~(parent[i] = MeshNode(i + 1) /\ parent[i + 1] = MeshNode(i)) }

(* A scene graph of MaxMeshes meshes over two geometries and two           *)
(* materials, which are similar or not.                                    *)
InitScene ==
  /\ sceneMeshes = [i \in 1..MaxMeshes |-> i]
  /\ \E geometry \in [1..MaxMeshes -> {1, 2}], material \in [1..MaxMeshes -> {1, 2}],
        parent \in SceneParents(MaxMeshes) :
       meshObj = [i \in 1..MaxMeshes |->
                    MeshRec("Mesh", geometry[i], material[i], FALSE, FALSE, TRUE,
                            parent[i], 3, {PositionKind})]
  /\ materialObj \in { <<WithId(StdMat(0, NoTexture), 1), WithId(StdMat(d, NoTexture), 2)>> :
                         d \in {5, 40} }
  /\ config \in SceneConfigs
  /\ pc = "mat_idle"
  /\ loc = NoLoc
  /\ result = NoResult
  /\ pre = [sceneMeshes |-> <<>>, meshObj |-> <<>>, materialObj |-> <<>>]
  /\ orig = Snapshot(sceneMeshes, meshObj, materialObj)

NextScene ==
  \/ MatBegin
  \/ MatKeepSingle
  \/ MatCreateMerged
  \/ MatRepoint
  \/ MatDispose
  \/ MatEnd
  \/ InstBegin
  \/ InstStep
  \/ InstGroupDone
  \/ InstEnd
  \/ MergeBegin
  \/ MergeWholeGroup
  \/ MergeSplit
  \/ MergeBatch
  \/ MergeEnd
  \/ SceneAdvance
  \/ SceneStatistics

SpecScene == InitScene /\ [][NextScene]_vars

(***************************************************************************)
(* Properties of optimizeScene                                             *)
(***************************************************************************)
(* The meshes that, when mergeMeshes was called, were the master of an     *)
(* instance in the scene.                                                  *)
MastersAtMerge ==
  {pre.meshObj[x].sourceMesh :
     x \in {y \in Range(pre.sceneMeshes) : pre.meshObj[y].kind = "InstancedMesh"}}

(* C12 as stated: in optimizeScene, after createInstances and mergeMeshes  *)
(* every instance in the scene has an undisposed master, and no source of  *)
(* a merged mesh was the master of instances.                              *)
C12_Original_MastersSurviveMerging ==
  (pc \in {"merge_groups", "merge_done"}) =>
    /\ \A x \in Range(sceneMeshes) :
         meshObj[x].kind = "InstancedMesh" => ~meshObj[meshObj[x].sourceMesh].disposed
    /\ \A k \in 1..Len(loc.mergedGroups) :
         loc.mergedGroups[k].mergedMesh # NoMesh =>
           Range(loc.mergedGroups[k].meshes) \cap MastersAtMerge = {}

(* The instances and merged meshes the passes created.                     *)
CreatedMeshes == DOMAIN meshObj \ DOMAIN orig.meshObj

(* C13: with preserveHierarchy and respectHierarchy, after createInstances *)
(* and after mergeMeshes no live instance and no live merged mesh has a    *)
(* disposed mesh as its parent.                                            *)
C13_NoLiveMeshUnderDisposedParent ==
  (pc \in {"inst_done", "merge_done"}
     /\ config.preserveHierarchy /\ config.respectHierarchy) =>
    \A x \in CreatedMeshes :
      ~meshObj[x].disposed =>
        \A m \in DOMAIN meshObj :
          meshObj[x].parent = MeshNode(m) => ~meshObj[m].disposed

(* createInstances returned, having replaced a mesh whose parent was a     *)
(* mesh that it disposed later: the instance took that parent and went     *)
(* with it.                                                                *)
C13_Witness ==
  /\ pc = "inst_done"
  /\ config.preserveHierarchy
  /\ \E g \in 1..Len(result.instancedGroups) :
       \E i \in 2..Len(result.instancedGroups[g].meshes) :
         LET group == result.instancedGroups[g]
             instance == group.instancedMesh[i - 1]
         IN  \E m \in DOMAIN pre.meshObj :
               /\ pre.meshObj[group.meshes[i]].parent = MeshNode(m)
               /\ m \in Range(SubSeq(group.meshes, i + 1, Len(group.meshes)))
               /\ meshObj[m].disposed
               /\ meshObj[instance].disposed

(***************************************************************************)
(* mergeMeshes on a scene of meshes of every sort                          *)
(***************************************************************************)
(* The MergerConfig values: the defaults with a small mergeLimitPerGroup,  *)
(* and mergeCollisionMeshes switched.                                      *)
MixedMergeConfigs ==
  { [preserveOriginalMeshes |-> FALSE, mergeLimitPerGroup |-> MergeLimitSmall,
     respectHierarchy |-> TRUE, mergeCollisionMeshes |-> mc,
     createBoundingBoxes |-> TRUE] : mc \in BOOLEAN }

(* An InstancedMesh of the mesh master.                                    *)
InstanceOf(master) ==
  [MeshRec("InstancedMesh", NoGeometry, NoMaterial, FALSE, FALSE, TRUE, RootNode, 0, {})
     EXCEPT !.sourceMesh = master]

(* The sorts of mesh a scene holds: meshes with one material or none,      *)
(* invisible, animated, collidable, without vertices, without geometry,    *)
(* and instances of the first mesh.                                        *)
MixedMeshes ==
  { MeshRec("Mesh", 1, 1, FALSE, FALSE, TRUE, RootNode, 3, {PositionKind}),
    MeshRec("Mesh", 1, NoMaterial, FALSE, FALSE, TRUE, RootNode, 3, {PositionKind}),
    MeshRec("Mesh", 1, 1, FALSE, FALSE, FALSE, RootNode, 3, {PositionKind}),
    MeshRec("Mesh", 1, 1, TRUE, FALSE, TRUE, RootNode, 3, {PositionKind}),
    MeshRec("Mesh", 1, 1, FALSE, TRUE, TRUE, RootNode, 3, {PositionKind}),
    MeshRec("Mesh", 1, 1, FALSE, FALSE, TRUE, RootNode, 0, {}),
    MeshRec("Mesh", NoGeometry, 1, FALSE, FALSE, TRUE, RootNode, 0, {}),
    InstanceOf(1) }

(* A scene of MaxMeshes meshes of these sorts.                             *)
InitMixed ==
  /\ sceneMeshes = [i \in 1..MaxMeshes |-> i]
  /\ meshObj \in [1..MaxMeshes -> MixedMeshes]
  /\ \A i \in 1..MaxMeshes :
       meshObj[i].kind = "InstancedMesh" =>
         i > 1 /\ meshObj[1].kind = "Mesh" /\ meshObj[1].geometry # NoGeometry
  /\ materialObj = <<WithId(StdMat(0, NoTexture), 1)>>
  /\ config \in MixedMergeConfigs
  /\ pc = "merge_idle"
  /\ loc = NoLoc
  /\ result = NoResult
  /\ pre = [sceneMeshes |-> <<>>, meshObj |-> <<>>, materialObj |-> <<>>]
  /\ orig = Snapshot(sceneMeshes, meshObj, materialObj)

SpecMixed == InitMixed /\ [][NextMerger]_vars

(* The meshes of the groups mergeMeshes built.                             *)
GroupedMeshes == UNION {Range(loc.groups[g].meshes) : g \in 1..Len(loc.groups)}

(* The eligibility of the Merger: the mesh owns a geometry of more than 0  *)
(* vertices, is no instance, is visible, has no animation, and is not      *)
(* collidable unless mergeCollisionMeshes.                                 *)
Eligible(mesh) ==
  /\ mesh.kind # "InstancedMesh"
  /\ mesh.geometry # NoGeometry /\ mesh.vertices > 0
  /\ mesh.isVisible
  /\ ~mesh.animated
  /\ (mesh.checkCollisions => config.mergeCollisionMeshes)

(* No source of a merged mesh was animated, or collidable with             *)
(* mergeCollisionMeshes false.                                             *)
MergedSourcesEligible ==
  \A k \in 1..Len(loc.mergedGroups) :
    loc.mergedGroups[k].mergedMesh # NoMesh =>
      \A m \in Range(loc.mergedGroups[k].meshes) :
        /\ ~pre.meshObj[m].animated
        /\ (pre.meshObj[m].checkCollisions => config.mergeCollisionMeshes)

(* C14 as stated: a mesh is in a group of the Merger iff it is eligible,   *)
(* and no animated or excluded collidable mesh is a source of a merged     *)
(* mesh.                                                                   *)
C14_Original_GroupedIffEligible ==
  pc \in {"merge_groups", "merge_done"} =>
    /\ \A m \in Range(pre.sceneMeshes) : m \in GroupedMeshes <=> Eligible(pre.meshObj[m])
    /\ MergedSourcesEligible

(* C14, amended: a mesh is in a group of the Merger iff it is eligible and *)
(* another eligible mesh has its material id, and no animated or excluded  *)
(* collidable mesh is a source of a merged mesh.                           *)
C14_GroupedIffEligibleAndNotAlone ==
  pc \in {"merge_groups", "merge_done"} =>
    /\ \A m \in Range(pre.sceneMeshes) :
         m \in GroupedMeshes <=>
           /\ Eligible(pre.meshObj[m])
           /\ \E x \in Range(pre.sceneMeshes) \ {m} :
                /\ Eligible(pre.meshObj[x])
                /\ InstMaterialId(pre.meshObj[x], pre.materialObj)
                     = InstMaterialId(pre.meshObj[m], pre.materialObj)
    /\ MergedSourcesEligible

(* mergeMeshes returned with a merged mesh, on a scene that held an        *)
(* animated mesh, a mesh without vertices or an instance of the merged     *)
(* meshes' material, which is in no group.                                 *)
C14_Witness ==
  /\ pc = "merge_done"
  /\ result.mergedMeshCount >= 1
  /\ \E m \in Range(pre.sceneMeshes) \ GroupedMeshes :
       /\ ~Eligible(pre.meshObj[m])
       /\ \/ pre.meshObj[m].animated
          \/ pre.meshObj[m].kind = "InstancedMesh"
          \/ pre.meshObj[m].geometry # NoGeometry /\ pre.meshObj[m].vertices = 0

(***************************************************************************)
(* Properties of the batches of mergeMeshes                                *)
(***************************************************************************)
(* The groups of the analysis that are over mergeLimitPerGroup.            *)
SplitGroups ==
  {g \in 1..Len(loc.groups) : Len(loc.groups[g].meshes) > config.mergeLimitPerGroup}

(* The entries of the result that hold meshes of group g, in order.        *)
EntriesOf(g) ==
  SelectSeq(result.materialGroups,
            LAMBDA entry : Range(entry.meshes) \cap Range(loc.groups[g].meshes) # {})

(* The batches of group g are consecutive runs of its meshes in member     *)
(* order, each of mergeLimitPerGroup meshes except possibly the last, and  *)
(* every mesh of the group is in exactly one of them.                      *)
BatchesPartition(g) ==
  LET meshes == loc.groups[g].meshes
      n == Len(meshes)
      lim == config.mergeLimitPerGroup
      entries == EntriesOf(g)
  IN  /\ Len(entries) = (n + lim - 1) \div lim
      /\ \A b \in 1..Len(entries) :
           /\ b < Len(entries) => Len(entries[b].meshes) = lim
           /\ Len(entries[b].meshes) \in 1..lim
           /\ entries[b].meshes
                = SubSeq(meshes, (b - 1) * lim + 1, (b - 1) * lim + Len(entries[b].meshes))
      /\ \A i \in 1..n :
           Cardinality({b \in 1..Len(entries) : meshes[i] \in Range(entries[b].meshes)}) = 1

(* The merged meshes of the batches are meshes of their own.               *)
MergedMeshesDistinct(g) ==
  \A b1, b2 \in 1..Len(EntriesOf(g)) :
    (b1 # b2 /\ EntriesOf(g)[b1].mergedMesh # NoMesh)
      => EntriesOf(g)[b1].mergedMesh # EntriesOf(g)[b2].mergedMesh

(* Whether the meshes can be concatenated once normalized: they agree on   *)
(* the attribute kinds the normalization does not supply.                  *)
Concatenable(meshes) ==
  \A m1, m2 \in Range(meshes) :
    pre.meshObj[m1].attrs \ CommonAttributes = pre.meshObj[m2].attrs \ CommonAttributes

(* C15 as stated: a group over mergeLimitPerGroup is cut into consecutive  *)
(* batches in member order, each of mergeLimitPerGroup meshes except       *)
(* possibly the last, every mesh in exactly one batch, and every batch     *)
(* gives one merged mesh.                                                  *)
C15_Original_OneMergedMeshPerBatch ==
  MergeDone =>
    \A g \in SplitGroups :
      /\ BatchesPartition(g)
      /\ MergedMeshesDistinct(g)
      /\ \A b \in 1..Len(EntriesOf(g)) : EntriesOf(g)[b].mergedMesh # NoMesh

(* C15, amended: a group over mergeLimitPerGroup is cut into consecutive   *)
(* batches in member order, each of mergeLimitPerGroup meshes except       *)
(* possibly the last, every mesh in exactly one batch, and every batch     *)
(* whose meshes can be concatenated gives one merged mesh, the others      *)
(* none.                                                                   *)
C15_OneMergedMeshPerMergedBatch ==
  MergeDone =>
    \A g \in SplitGroups :
      /\ BatchesPartition(g)
      /\ MergedMeshesDistinct(g)
      /\ \A b \in 1..Len(EntriesOf(g)) :
           EntriesOf(g)[b].mergedMesh # NoMesh <=> Concatenable(EntriesOf(g)[b].meshes)

(* mergeMeshes returned, having cut a group into batches of which the last *)
(* is smaller than mergeLimitPerGroup, and merged every batch.             *)
C15_Witness ==
  /\ MergeDone
  /\ \E g \in SplitGroups :
       /\ Len(loc.groups[g].meshes) % config.mergeLimitPerGroup # 0
       /\ Len(EntriesOf(g)) >= 2
       /\ \A b \in 1..Len(EntriesOf(g)) : EntriesOf(g)[b].mergedMesh # NoMesh

(***************************************************************************)
(* mergeMeshes on meshes of differing vertex attributes and orientation    *)
(***************************************************************************)
(* The meshes: 2 vertices with positions alone, 3 vertices with normals    *)
(* and uv, 3 vertices with uv2, colors and tangents; each unrotated or     *)
(* with a rotationQuaternion of a quarter turn.                            *)
LayoutMeshes ==
  { Placed(MeshRec("Mesh", 1, 1, FALSE, FALSE, TRUE, RootNode, layout[1], layout[2]),
           0, 0, quaternion, 1) :
      layout \in { <<2, {PositionKind}>>,
                   <<3, {PositionKind, "normal", "uv"}>>,
                   <<3, {PositionKind, "uv2", "color", "tangent"}>> },
      quaternion \in {NoQuaternion, 2} }

(* A scene of MaxMeshes such meshes of one material.                       *)
InitLayout ==
  /\ sceneMeshes = [i \in 1..MaxMeshes |-> i]
  /\ meshObj \in [1..MaxMeshes -> LayoutMeshes]
  /\ materialObj = <<WithId(StdMat(0, NoTexture), 1)>>
  /\ config \in {cfg \in MergeConfigs : ~cfg.preserveOriginalMeshes}
  /\ pc = "merge_idle"
  /\ loc = NoLoc
  /\ result = NoResult
  /\ pre = [sceneMeshes |-> <<>>, meshObj |-> <<>>, materialObj |-> <<>>]
  /\ orig = Snapshot(sceneMeshes, meshObj, materialObj)

SpecLayout == InitLayout /\ [][NextMerger]_vars

(* The attribute kinds the normalization is about.                         *)
SixKinds == {PositionKind} \cup CommonAttributes

(* The kinds among them that any of the meshes had before the pass.        *)
KindsOf(meshes) == UNION {pre.meshObj[m].attrs \cap SixKinds : m \in Range(meshes)}

(* The documented default of a kind, for one vertex.                       *)
DocumentedDefault(kind) ==
  CASE kind = "normal" -> <<0, 1, 0>>
    [] kind = "uv" -> <<0, 0>>
    [] kind = "uv2" -> <<0, 0>>
    [] kind = "color" -> <<1, 1, 1, 1>>
    [] kind = "tangent" -> <<1, 0, 0, 1>>

(* The data holds the vertex value for each of count vertices.             *)
HoldsPerVertex(data, value, count) ==
  /\ Len(data) = count * Len(value)
  /\ \A v \in 0..(count - 1) : \A c \in 1..Len(value) : data[v * Len(value) + c] = value[c]

(* Mesh m, normalized with the meshes, has exactly their kinds, and every  *)
(* kind it lacked as a buffer of the documented default.                   *)
NormalizedWith(m, meshes) ==
  /\ meshObj[m].attrs \cap SixKinds = KindsOf(meshes)
  /\ \A kind \in KindsOf(meshes) \ pre.meshObj[m].attrs :
       /\ kind \in DOMAIN meshObj[m].buffers
       /\ HoldsPerVertex(meshObj[m].buffers[kind], DocumentedDefault(kind),
                         pre.meshObj[m].vertices)

(* The documented default as it stands in the merged geometry for a member *)
(* rotated by a quarter turn about z.                                      *)
DocumentedDefaultTurned(kind) ==
  CASE kind = "normal" -> <<-1, 0, 0>>
    [] kind = "tangent" -> <<0, 1, 0, 1>>
    [] OTHER -> DocumentedDefault(kind)

C17_MergedVertexCountIsSum ==
  MergeDone =>
    \A k \in MergedEntries :
      LET entry == result.materialGroups[k]
          sum == SumSeq([i \in 1..Len(entry.meshes) |-> pre.meshObj[entry.meshes[i]].vertices])
      IN  /\ entry.mergedVertexCount = sum
          /\ entry.originalVertexCount = sum
          /\ meshObj[entry.mergedMesh].vertices = sum
          /\ SumSeq([i \in 1..Len(entry.meshes) |->
                       meshObj[entry.mergedMesh].segments[i].vertices]) = sum

(* mergeMeshes returned with a batch merged of a mesh of 2 vertices and a  *)
(* mesh of 3 vertices, of which one or both got synthesized buffers.       *)
C17_Witness ==
  /\ MergeDone
  /\ \E k \in MergedEntries :
       /\ result.materialGroups[k].mergedVertexCount = 5
       /\ Len(result.materialGroups[k].meshes) = 2
       /\ meshObj[result.materialGroups[k].mergedMesh].synth # {}
       /\ Len(result.materialGroups) > Len(loc.groups)

(***************************************************************************)
(* createInstances on meshes of differing transforms and flags             *)
(***************************************************************************)
(* The placements: at the origin; moved, turned by rotation, scaled and    *)
(* with the flags switched; moved and turned by a rotationQuaternion, as a *)
(* glTF node is; scaled under an identity rotationQuaternion.              *)
PlacedMeshes ==
  { Flagged(Placed(MeshRec("Mesh", g, 1, FALSE, FALSE, TRUE, RootNode, 3, {PositionKind}),
                   t[1], t[2], t[3], t[4]),
            t[5], t[6], t[7]) :
      g \in {1, 2},
      t \in { <<0, 0, NoQuaternion, 1, TRUE, TRUE, FALSE>>,
              <<1, 1, NoQuaternion, 2, FALSE, FALSE, TRUE>>,
              <<1, 0, 2, 1, TRUE, TRUE, FALSE>>,
              <<0, 0, 1, 2, TRUE, FALSE, FALSE>> } }

(* A scene of MaxMeshes such meshes of one material.                       *)
InitPlaced ==
  /\ sceneMeshes = [i \in 1..MaxMeshes |-> i]
  /\ meshObj \in [1..MaxMeshes -> PlacedMeshes]
  /\ materialObj = <<WithId(StdMat(0, NoTexture), 1)>>
  /\ config \in {cfg \in InstConfigs : ~cfg.preserveAnimations}
  /\ pc = "inst_idle"
  /\ loc = NoLoc
  /\ result = NoResult
  /\ pre = [sceneMeshes |-> <<>>, meshObj |-> <<>>, materialObj |-> <<>>]
  /\ orig = Snapshot(sceneMeshes, meshObj, materialObj)

SpecPlaced == InitPlaced /\ [][NextInstancer]_vars

(* C18 as stated: every mesh of an instanced group but the first has       *)
(* exactly one instance of the group's master, which carries the mesh's    *)
(* position, rotation, scaling, isVisible, isPickable and checkCollisions, *)
(* and no source mesh was disposed when these were copied.                 *)
C18_Original_InstanceCarriesSource ==
  pc = "inst_done" =>
    /\ \A k \in 1..Len(loc.copied) : ~loc.copied[k].disposed
    /\ Cardinality({x \in DOMAIN meshObj : meshObj[x].kind = "InstancedMesh"})
         = SumSeq([g \in 1..Len(result.instancedGroups) |->
                     Len(result.instancedGroups[g].meshes) - 1])
    /\ \A g \in 1..Len(result.instancedGroups) :
         LET group == result.instancedGroups[g]
         IN  /\ Len(group.instancedMesh) = Len(group.meshes) - 1
             /\ \A i \in 2..Len(group.meshes) :
                  LET source == pre.meshObj[group.meshes[i]]
                      instance == meshObj[group.instancedMesh[i - 1]]
                  IN  /\ instance.kind = "InstancedMesh"
                      /\ instance.sourceMesh = group.meshes[1]
                      /\ instance.position = source.position
                      /\ Orientation(instance) = Orientation(source)
                      /\ instance.scaling = source.scaling
                      /\ instance.isVisible = source.isVisible
                      /\ instance.isPickable = source.isPickable
                      /\ instance.checkCollisions = source.checkCollisions
                      /\ meshObj[group.meshes[i]].disposed

(***************************************************************************)
(* The order of the stages of optimizeScene                                *)
(***************************************************************************)
(* The stage a position belongs to: 1 material deduplication, 2 mesh       *)
(* instancing, 3 mesh merging, 4 statistics.                               *)
StageOf(p) ==
  CASE p \in {"mat_idle", "mat_merge", "mat_done"} -> 1
    [] p \in {"inst_idle", "inst_groups", "inst_done"} -> 2
    [] p \in {"merge_idle", "merge_groups", "merge_done"} -> 3
    [] p \in {"stats_idle", "stats_done"} -> 4

(* The positions at which a stage has returned, and those at which a stage *)
(* has not begun.                                                          *)
StageReturned == {"mat_done", "inst_done", "merge_done", "stats_done"}

StageNotBegun == {"mat_idle", "inst_idle", "merge_idle", "stats_idle"}

(* C19: optimizeScene begins at the material deduplication, and every      *)
(* step either stays within its stage or leaves a stage that has returned  *)
(* for the beginning of the next one in the order deduplication,           *)
(* instancing, merging, statistics, handing over the scene as the stage    *)
(* left it; being at one position, no two stages are under way at once.    *)
C19_StagesInFixedOrder ==
  /\ pc = "mat_idle"
  /\ [][ \/ StageOf(pc') = StageOf(pc)
         \/ /\ StageOf(pc') = StageOf(pc) + 1
            /\ pc \in StageReturned
            /\ pc' \in StageNotBegun
            /\ UNCHANGED <<sceneMeshes, meshObj, materialObj>> ]_vars

(* optimizeScene has returned, after an instance and a merged mesh were    *)
(* created on the way.                                                     *)
C19_Witness ==
  /\ pc = "stats_done"
  /\ \E m \in CreatedMeshes : meshObj[m].kind = "InstancedMesh"
  /\ \E m \in CreatedMeshes : meshObj[m].kind = "Mesh"

(***************************************************************************)
(* createInstances after optimizeMaterials, against createInstances alone  *)
(***************************************************************************)
(* A scene of MaxPairMeshes meshes under the root node, over two           *)
(* geometries and two materials, which are similar or not: enough meshes   *)
(* for two instanced groups.                                               *)
InitPairs ==
  /\ sceneMeshes = [i \in 1..MaxPairMeshes |-> i]
  /\ \E geometry \in [1..MaxPairMeshes -> {1, 2}], material \in [1..MaxPairMeshes -> {1, 2}] :
       meshObj = [i \in 1..MaxPairMeshes |->
                    MeshRec("Mesh", geometry[i], material[i], FALSE, FALSE, TRUE,
                            RootNode, 3, {PositionKind})]
  /\ materialObj \in { <<WithId(StdMat(0, NoTexture), 1), WithId(StdMat(d, NoTexture), 2)>> :
                         d \in {5, 40} }
  /\ config \in SceneConfigs
  /\ pc = "mat_idle"
  /\ loc = NoLoc
  /\ result = NoResult
  /\ pre = [sceneMeshes |-> <<>>, meshObj |-> <<>>, materialObj |-> <<>>]
  /\ orig = Snapshot(sceneMeshes, meshObj, materialObj)

SpecPairs == InitPairs /\ [][NextScene]_vars

(* The number of instanced groups createInstances returns when it is run   *)
(* alone on the original scene: one for each group of its analysis.        *)
GroupCountAlone ==
  Len(AnalyzeMeshes(orig.sceneMeshes, orig.meshObj, orig.materialObj, config))

(* createInstances has returned after optimizeMaterials.                   *)
InstancedAfterDedup == pc = "inst_done" /\ result.kind = "inst"

(* The meshes of the original scene that createInstances considers, and    *)
(* those among them with the geometry id and the material id of m.         *)
OrigCandidates == {m \in Range(orig.sceneMeshes) : InstCandidate(orig.meshObj[m])}

OrigSameGeometryAndMaterial(m) ==
  {x \in OrigCandidates :
     /\ InstGeometryId(orig.meshObj[x]) = InstGeometryId(orig.meshObj[m])
     /\ InstMaterialId(orig.meshObj[x], orig.materialObj)
          = InstMaterialId(orig.meshObj[m], orig.materialObj)}

(* C20 as stated: createInstances run after optimizeMaterials returns at   *)
(* least as many instanced groups as createInstances run alone on the      *)
(* original scene.                                                         *)
C20_Original_GroupCountNotLower ==
  InstancedAfterDedup => Len(result.instancedGroups) >= GroupCountAlone

(* C20, amended: the meshes that share a geometry id and a material id in  *)
(* the original scene and number at least minInstanceCount lie together in *)
(* one instanced group of createInstances run after optimizeMaterials.     *)
C20_SharingMeshesStayTogether ==
  InstancedAfterDedup =>
    \A m \in OrigCandidates :
      Cardinality(OrigSameGeometryAndMaterial(m)) >= config.minInstanceCount =>
        \E g \in 1..Len(result.instancedGroups) :
          OrigSameGeometryAndMaterial(m) \subseteq Range(result.instancedGroups[g].meshes)

(* Deduplication has united two groups of createInstances alone: fewer     *)
(* instanced groups are returned, and one holds the meshes of both.        *)
C20_Witness ==
  /\ InstancedAfterDedup
  /\ Len(result.instancedGroups) < GroupCountAlone
  /\ \E g \in 1..Len(result.instancedGroups) : \E m, n \in OrigCandidates :
       /\ OrigSameGeometryAndMaterial(m) # OrigSameGeometryAndMaterial(n)
       /\ Cardinality(OrigSameGeometryAndMaterial(m)) >= config.minInstanceCount
       /\ Cardinality(OrigSameGeometryAndMaterial(n)) >= config.minInstanceCount
       /\ OrigSameGeometryAndMaterial(m) \cup OrigSameGeometryAndMaterial(n)
            \subseteq Range(result.instancedGroups[g].meshes)

(* The number of instances createInstances creates when it is run alone on *)
(* the original scene: one for every mesh of a group but its first.        *)
InstancesCreatedAlone ==
  SumSeq([g \in 1..GroupCountAlone |->
            Len(AnalyzeMeshes(orig.sceneMeshes, orig.meshObj, orig.materialObj,
                              config)[g].meshes) - 1])

(* C21 as stated: createInstances run after optimizeMaterials creates at   *)
(* least as many instances as createInstances run alone on the original    *)
(* scene.                                                                  *)
C21_Original_InstancesCreatedNotLower ==
  InstancedAfterDedup => result.totalInstancesCreated >= InstancesCreatedAlone

(***************************************************************************)
(* revertInstancing                                                        *)
(***************************************************************************)
(* sourceMesh.clone(name, parent): the new Mesh, a copy of the source      *)
(* under the parent given; and the copies clone makes of the source's      *)
(* children (doNotCloneChildren is not passed), which go under the new     *)
(* mesh, a copy of an instance being an instance of the same master.       *)
ClonedMesh(source, parent) == [source EXCEPT !.parent = parent, !.sourceMesh = NoMesh]

ChildrenOf(mo, ms, m) ==
  SelectSeq(ms, LAMBDA x : ~mo[x].disposed /\ mo[x].parent = MeshNode(m))

ClonedChildren(mo, children, newMesh) ==
  [k \in 1..Len(children) |-> [mo[children[k]] EXCEPT !.parent = MeshNode(newMesh)]]

(* The copies of revertInstancing onto the new mesh: position, rotation    *)
(* (assigning it unsets rotationQuaternion), scaling and the three flags.  *)
RevertedFrom(newMesh, instance) ==
  [newMesh EXCEPT !.position = instance.position, !.rotation = instance.rotation,
                  !.rotationQuaternion = NoQuaternion, !.scaling = instance.scaling,
                  !.isVisible = instance.isVisible, !.isPickable = instance.isPickable,
                  !.checkCollisions = instance.checkCollisions]

(* The scene with the clone of the instance's master, set up from the      *)
(* instance, and the clones of the master's children.                      *)
WithReverted(mo, ms, instance, children) ==
  [meshObj |-> mo \o <<RevertedFrom(ClonedMesh(mo[mo[instance].sourceMesh],
                                                mo[instance].parent), mo[instance])>>
                  \o ClonedChildren(mo, children, Len(mo) + 1),
   sceneMeshes |-> ms \o [k \in 1..(1 + Len(children)) |-> Len(mo) + k]]

(* The scene before instance.dispose(): with the new mesh if the instance  *)
(* has a sourceMesh.                                                       *)
BeforeInstanceDispose(mo, ms, instance) ==
  IF mo[instance].sourceMesh # NoMesh
    THEN WithReverted(mo, ms, instance, ChildrenOf(mo, ms, mo[instance].sourceMesh))
    ELSE [meshObj |-> mo, sceneMeshes |-> ms]

InstanceDisposed(before, instance) ==
  DisposeMesh(before.meshObj, before.sceneMeshes, instance)

RevertedScene(after, created) ==
  /\ meshObj' = after.meshObj
  /\ sceneMeshes' = after.sceneMeshes
  /\ loc' = [loc EXCEPT !.i = @ + 1, !.created = Append(@, created),
                        !.revertedCount = @ + (IF created = NoMesh THEN 0 ELSE 1)]

(* revertInstancing: the instances of the scene are listed.                *)
RevertBegin ==
  /\ pc = "rev_idle"
  /\ loc' = [kind |-> "rev",
             instances |-> SelectSeq(sceneMeshes,
                                     LAMBDA m : meshObj[m].kind = "InstancedMesh"),
             i |-> 1, revertedCount |-> 0, created |-> <<>>]
  /\ pre' = Snapshot(sceneMeshes, meshObj, materialObj)
  /\ pc' = "rev_instances"
  /\ UNCHANGED <<sceneMeshes, meshObj, materialObj, config, result, orig>>

(* instances.forEach body: clone, copies, instance.dispose().              *)
RevertStep ==
  /\ pc = "rev_instances"
  /\ loc.i <= Len(loc.instances)
  /\ RevertedScene(InstanceDisposed(BeforeInstanceDispose(meshObj, sceneMeshes,
                                                          loc.instances[loc.i]),
                                    loc.instances[loc.i]),
                   IF meshObj[loc.instances[loc.i]].sourceMesh # NoMesh
                     THEN Len(meshObj) + 1 ELSE NoMesh)
  /\ UNCHANGED <<materialObj, config, pc, result, pre, orig>>

(* revertInstancing returns (void).                                        *)
RevertEnd ==
  /\ pc = "rev_instances"
  /\ loc.i > Len(loc.instances)
  /\ pc' = "rev_done"
  /\ result' = [kind |-> "rev", revertedCount |-> loc.revertedCount]
  /\ UNCHANGED <<sceneMeshes, meshObj, materialObj, config, loc, pre, orig>>

(* The instances a scene holds besides the ones createInstances makes: an  *)
(* instance of mesh 1 placed by rotation or, as the glTF loader places the *)
(* instances it creates, by rotationQuaternion, under the root node or     *)
(* under its master.                                                       *)
RevertMeshes ==
  { Flagged(Placed([InstanceOf(1) EXCEPT !.parent = p], t[1], t[2], t[3], t[4]),
            t[5], t[6], t[7]) :
      p \in {RootNode, MeshNode(1)},
      t \in { <<0, 0, NoQuaternion, 1, TRUE, TRUE, FALSE>>,
              <<1, 1, NoQuaternion, 2, FALSE, FALSE, TRUE>>,
              <<1, 0, 2, 1, TRUE, TRUE, FALSE>> } }
  \cup { MeshRec("Mesh", 2, 1, FALSE, FALSE, TRUE, RootNode, 3, {PositionKind}) }

(* A scene of a master, placed by rotation or by rotationQuaternion, and   *)
(* MaxMeshes further meshes, instances of it or not.                       *)
InitRevert ==
  /\ sceneMeshes = [i \in 1..(MaxMeshes + 1) |-> i]
  /\ \E master \in { Placed(MeshRec("Mesh", 1, 1, FALSE, FALSE, TRUE, RootNode, 3,
                                    {PositionKind}), 0, t[1], t[2], 1) :
                       t \in {<<0, NoQuaternion>>, <<1, NoQuaternion>>, <<0, 3>>} },
        others \in [2..(MaxMeshes + 1) -> RevertMeshes] :
       meshObj = [i \in 1..(MaxMeshes + 1) |-> IF i = 1 THEN master ELSE others[i]]
  /\ materialObj = <<WithId(StdMat(0, NoTexture), 1)>>
  /\ config \in {cfg \in InstConfigs : cfg.minInstanceCount = 2 /\ cfg.preserveHierarchy
                                        /\ ~cfg.preserveAnimations}
  /\ pc = "rev_idle"
  /\ loc = NoLoc
  /\ result = NoResult
  /\ pre = [sceneMeshes |-> <<>>, meshObj |-> <<>>, materialObj |-> <<>>]
  /\ orig = Snapshot(sceneMeshes, meshObj, materialObj)

NextRevert ==
  \/ RevertBegin
  \/ RevertStep
  \/ RevertEnd

SpecRevert == InitRevert /\ [][NextRevert]_vars

(* The meshes revertInstancing has added to the scene.                     *)
RevertCreated == DOMAIN meshObj \ DOMAIN pre.meshObj

(* C22 as stated: after revertInstancing no instance remains in the scene; *)
(* for every instance that was present exactly one new standalone mesh     *)
(* exists, with the instance's position, rotation, scaling, isVisible,     *)
(* isPickable and checkCollisions; the masters are left in place.          *)
C22_Original_InstancesBecomeMeshes ==
  pc = "rev_done" =>
    /\ \A m \in Range(sceneMeshes) : meshObj[m].kind # "InstancedMesh"
    /\ Cardinality(RevertCreated) = Len(loc.instances)
    /\ \A k \in 1..Len(loc.instances) :
         LET instance == pre.meshObj[loc.instances[k]]
             newMesh == meshObj[loc.created[k]]
         IN  /\ loc.created[k] \in RevertCreated
             /\ newMesh.kind = "Mesh" /\ ~newMesh.disposed
             /\ newMesh.geometry = pre.meshObj[instance.sourceMesh].geometry
             /\ newMesh.position = instance.position
             /\ Orientation(newMesh) = Orientation(instance)
             /\ newMesh.scaling = instance.scaling
             /\ newMesh.isVisible = instance.isVisible
             /\ newMesh.isPickable = instance.isPickable
             /\ newMesh.checkCollisions = instance.checkCollisions
    /\ \A k \in 1..Len(loc.instances) :
         meshObj[pre.meshObj[loc.instances[k]].sourceMesh]
           = pre.meshObj[pre.meshObj[loc.instances[k]].sourceMesh]

(***************************************************************************)
(* loadPointCloud, PLYLoader and SPZLoader                                 *)
(***************************************************************************)
(* The calls of loadPointCloud are numbered 1..MaxLoads in the order they  *)
(* are made; pc[p] is where call p stands: not made ("idle"), awaiting     *)
(* fetch ("fetch"), awaiting the body of the response ("body"), resolved   *)
(* ("done") or rejected ("failed").  meshObj holds the transform nodes of  *)
(* the scene too (kind "TransformNode"); scene.meshes lists meshes only.   *)
Loads == 1..MaxLoads

InFlight(p) == pc[p] \in {"fetch", "body"}

(* The objects of the scene that are not disposed.                         *)
LiveObjects == {x \in DOMAIN meshObj : ~meshObj[x].disposed}

(* clear() of a loader whose current mesh or node is current: it is        *)
(* disposed, with its children, if there is one.                           *)
Cleared(mo, ms, current) ==
  IF current # NoMesh THEN DisposeMesh(mo, ms, current)
  ELSE [meshObj |-> mo, sceneMeshes |-> ms]

(* The call is made: what the caller is told later, and what the scene     *)
(* held at the call.                                                       *)
LoadCalled(p, error) ==
  [loc EXCEPT !.before[p] = LiveObjects, !.error[p] = error,
              !.alone[p] = \A q \in Loads : ~InFlight(q)]

(* loadPointCloud(url) with a .ply url, up to the await of fetch:          *)
(* plyLoader.load has cleared the loader's current mesh.                   *)
LoadCallPly(p) ==
  /\ pc[p] = "idle" /\ \A q \in 1..(p - 1) : pc[q] # "idle"
  /\ meshObj' = Cleared(meshObj, sceneMeshes, loc.plyCurrent).meshObj
  /\ sceneMeshes' = Cleared(meshObj, sceneMeshes, loc.plyCurrent).sceneMeshes
  /\ loc' = [LoadCalled(p, "none") EXCEPT !.url[p] = "ply", !.plyCurrent = NoMesh]
  /\ pc' = [pc EXCEPT ![p] = "fetch"]
  /\ UNCHANGED <<materialObj, config, result, pre, orig>>

(* loadPointCloud(url) with a .spz or .splat url, up to the await of       *)
(* fetch: spzLoader.load has cleared the loader's current node.            *)
LoadCallSpz(p) ==
  /\ pc[p] = "idle" /\ \A q \in 1..(p - 1) : pc[q] # "idle"
  /\ meshObj' = Cleared(meshObj, sceneMeshes, loc.spzCurrent).meshObj
  /\ sceneMeshes' = Cleared(meshObj, sceneMeshes, loc.spzCurrent).sceneMeshes
  /\ loc' = [LoadCalled(p, "none") EXCEPT !.url[p] = "spz", !.spzCurrent = NoMesh]
  /\ pc' = [pc EXCEPT ![p] = "fetch"]
  /\ UNCHANGED <<materialObj, config, result, pre, orig>>

(* loadPointCloud(url) with any other url: it throws at once.              *)
LoadCallOther(p) ==
  /\ pc[p] = "idle" /\ \A q \in 1..(p - 1) : pc[q] # "idle"
  /\ loc' = [LoadCalled(p, "format") EXCEPT !.url[p] = "other"]
  /\ pc' = [pc EXCEPT ![p] = "failed"]
  /\ UNCHANGED <<sceneMeshes, meshObj, materialObj, config, result, pre, orig>>

(* fetch rejects, or its response is not ok: load throws, loadPointCloud   *)
(* throws it on.                                                           *)
FetchFails(p) ==
  /\ pc[p] = "fetch"
  /\ pc' = [pc EXCEPT ![p] = "failed"]
  /\ loc' = [loc EXCEPT !.error[p] = "http"]
  /\ UNCHANGED <<sceneMeshes, meshObj, materialObj, config, result, pre, orig>>

(* The response is ok: the load awaits its body.                           *)
FetchResponds(p) ==
  /\ pc[p] = "fetch"
  /\ pc' = [pc EXCEPT ![p] = "body"]
  /\ UNCHANGED <<sceneMeshes, meshObj, materialObj, config, loc, result, pre, orig>>

(* The body is not a file of the format (_parsePLY, pako.inflate or        *)
(* _parseSPZ throws): load throws, loadPointCloud throws it on.            *)
BodyInvalid(p) ==
  /\ pc[p] = "body"
  /\ pc' = [pc EXCEPT ![p] = "failed"]
  /\ loc' = [loc EXCEPT !.error[p] = "parse"]
  /\ UNCHANGED <<sceneMeshes, meshObj, materialObj, config, result, pre, orig>>

(* The material _createPointCloud makes for its mesh.                      *)
PointMaterial(mats) == WithId(StdMat(0, NoTexture), Len(mats) + 1)

(* _createPointCloud: a new Mesh with positions, or positions and colors,  *)
(* and a new material.                                                     *)
PointCloud(material, vertices, attrs) ==
  MeshRec("Mesh", 3, material, FALSE, FALSE, TRUE, NoNode, vertices, attrs)

(* The body of a .ply load parses: the point cloud is created and becomes  *)
(* the loader's current mesh; loadPointCloud goes on to the camera, the    *)
(* point size and the statistics, and resolves.                            *)
PlyCreated(p) ==
  /\ pc[p] = "body" /\ loc.url[p] = "ply"
  /\ \E attrs \in {{PositionKind}, {PositionKind, "color"}} :
       meshObj' = Append(meshObj, PointCloud(Len(materialObj) + 1, 3, attrs))
  /\ sceneMeshes' = Append(sceneMeshes, Len(meshObj) + 1)
  /\ materialObj' = Append(materialObj, PointMaterial(materialObj))
  /\ loc' = [loc EXCEPT !.plyCurrent = Len(meshObj) + 1,
                        !.plyCreated = @ \cup {Len(meshObj) + 1}]
  /\ pc' = [pc EXCEPT ![p] = "done"]
  /\ UNCHANGED <<config, result, pre, orig>>

(* _createSplatSystem: a new TransformNode and, under it, a new Mesh with  *)
(* the splat material (material 1).                                        *)
SplatSystem(mo) ==
  <<MeshRec("TransformNode", NoGeometry, NoMaterial, FALSE, FALSE, TRUE, NoNode, 0, {}),
    MeshRec("Mesh", 4, 1, FALSE, FALSE, TRUE, MeshNode(Len(mo) + 1), 3,
            {PositionKind, "color"})>>

(* The body of a .spz load parses: the splat system is created and its     *)
(* node becomes the loader's current node; loadPointCloud then calls       *)
(* getBoundingInfo on the node, which a TransformNode does not have, and   *)
(* throws.                                                                 *)
SpzCreated(p) ==
  /\ pc[p] = "body" /\ loc.url[p] = "spz"
  /\ meshObj' = meshObj \o SplatSystem(meshObj)
  /\ sceneMeshes' = Append(sceneMeshes, Len(meshObj) + 2)
  /\ loc' = [loc EXCEPT !.spzCurrent = Len(meshObj) + 1, !.error[p] = "type"]
  /\ pc' = [pc EXCEPT ![p] = "failed"]
  /\ UNCHANGED <<materialObj, config, result, pre, orig>>

(* The scene before the first load: the splat material of the SPZLoader,   *)
(* and one mesh or none.                                                   *)
InitLoad ==
  /\ \E n \in {0, 1} :
       /\ sceneMeshes = [i \in 1..n |-> i]
       /\ meshObj = [i \in 1..n |->
                       MeshRec("Mesh", 1, NoMaterial, FALSE, FALSE, TRUE, NoNode, 3,
                               {PositionKind})]
  /\ materialObj = <<[WithId(StdMat(0, NoTexture), 1) EXCEPT !.cls = "ShaderMaterial"]>>
  /\ config \in {cfg \in InstConfigs : cfg.minInstanceCount = 2 /\ cfg.preserveHierarchy
                                        /\ ~cfg.preserveAnimations}
  /\ pc = [p \in Loads |-> "idle"]
  /\ loc = [kind |-> "load", plyCurrent |-> NoMesh, spzCurrent |-> NoMesh,
            plyCreated |-> {}, url |-> [p \in Loads |-> "none"],
            before |-> [p \in Loads |-> {}], error |-> [p \in Loads |-> "none"],
            alone |-> [p \in Loads |-> TRUE]]
  /\ result = NoResult
  /\ pre = [sceneMeshes |-> <<>>, meshObj |-> <<>>, materialObj |-> <<>>]
  /\ orig = Snapshot(sceneMeshes, meshObj, materialObj)

NextLoad ==
  \E p \in Loads :
    \/ LoadCallPly(p)
    \/ LoadCallSpz(p)
    \/ LoadCallOther(p)
    \/ FetchFails(p)
    \/ FetchResponds(p)
    \/ BodyInvalid(p)
    \/ PlyCreated(p)
    \/ SpzCreated(p)

SpecLoad == InitLoad /\ [][NextLoad]_vars

(* C23 as stated: when a load fails by an HTTP error or a parse error,     *)
(* the scene holds what it held when the load was called: the point cloud  *)
(* loaded before is still there and nothing has been added.  Stated of a   *)
(* load during which no other load was under way.                          *)
C23_Original_FailedLoadLeavesScene ==
  \A p \in Loads :
    ( /\ pc[p] = "failed"
      /\ loc.error[p] \in {"http", "parse"}
      /\ loc.alone[p]
      /\ \A q \in Loads : q > p => pc[q] = "idle" )
    => LiveObjects = loc.before[p]

(* C30 as stated: at most one mesh created by the PLYLoader is live, and   *)
(* every mesh it created is the loader's current mesh or disposed.         *)
C30_Original_OnePlyMeshLive ==
  /\ Cardinality(loc.plyCreated \cap LiveObjects) <= 1
  /\ \A m \in loc.plyCreated : m = loc.plyCurrent \/ meshObj[m].disposed

(***************************************************************************)
(* getStatistics called twice                                              *)
(***************************************************************************)
(* A scene of MaxMeshes meshes of the mixed sorts and two materials, with  *)
(* a texture, a shared texture or none.                                    *)
InitStats ==
  /\ sceneMeshes = [i \in 1..MaxMeshes |-> i]
  /\ meshObj \in [1..MaxMeshes -> MixedMeshes]
  /\ \A i \in 1..MaxMeshes :
       meshObj[i].kind = "InstancedMesh" =>
         i > 1 /\ meshObj[1].kind = "Mesh" /\ meshObj[1].geometry # NoGeometry
  /\ materialObj \in { <<WithId(a, 1), WithId(b, 2)>> :
                         a, b \in {StdMat(0, NoTexture), StdMat(20, TexA),
                                   PbrMat(0, TexA)} }
  /\ config \in {cfg \in InstConfigs : cfg.minInstanceCount = 2 /\ cfg.preserveHierarchy
                                        /\ ~cfg.preserveAnimations}
  /\ pc = "stats_idle"
  /\ loc = NoLoc
  /\ result = NoResult
  /\ pre = [sceneMeshes |-> <<>>, meshObj |-> <<>>, materialObj |-> <<>>]
  /\ orig = Snapshot(sceneMeshes, meshObj, materialObj)

NextStats ==
  \/ SceneStatistics
  \/ SceneStatisticsAgain

SpecStats == InitStats /\ [][NextStats]_vars

LimitConfigs ==
  { [preserveOriginalMeshes |-> po, mergeLimitPerGroup |-> lim,
     respectHierarchy |-> TRUE, mergeCollisionMeshes |-> FALSE,
     createBoundingBoxes |-> TRUE] :
      po \in BOOLEAN, lim \in {0 - 1, 0, 1, MergeLimitSmall} }

(* A scene of MaxMeshes meshes as in InitMerger.                           *)
InitLimit ==
  /\ sceneMeshes = [i \in 1..MaxMeshes |-> i]
  /\ meshObj \in [1..MaxMeshes ->
       { MeshRec("Mesh", 1, mat, FALSE, FALSE, TRUE, RootNode, 3, attrs) :
           mat \in {NoMaterial, 1}, attrs \in AttrPalette }
       \cup
       { MeshRec("Mesh", 1, 1, FALSE, TRUE, TRUE, RootNode, 3, {PositionKind}) }]
  /\ materialObj = <<WithId(StdMat(0, NoTexture), 1)>>
  /\ config \in LimitConfigs
  /\ pc = "merge_idle"
  /\ loc = NoLoc
  /\ result = NoResult
  /\ pre = [sceneMeshes |-> <<>>, meshObj |-> <<>>, materialObj |-> <<>>]
  /\ orig = Snapshot(sceneMeshes, meshObj, materialObj)

NextLimit ==
  \/ MergeBegin
  \/ MergeWholeGroup
  \/ MergeSplit
  \/ MergeSplitTurn
  \/ MergeBatch
  \/ MergeEnd

(* The loop of mergeMeshes has a group to merge whole, or a batch to merge. *)
WholeGroupReady ==
  /\ pc = "merge_groups"
  /\ loc.gi <= Len(loc.groups)
  /\ Len(loc.groups[loc.gi].meshes) <= config.mergeLimitPerGroup

BatchReady ==
  /\ pc = "merge_groups"
  /\ loc.gi <= Len(loc.groups)
  /\ loc.bi >= 1

(* mergeMeshes is synchronous: once called it takes its steps one after    *)
(* the other as long as there is one to take.  For the two merging steps   *)
(* weak fairness is written out with the step's guard, which is when the   *)
(* step can be taken: a merge always moves the loop on.                    *)
SpecLimit ==
  /\ InitLimit
  /\ [][NextLimit]_vars
  /\ WF_vars(MergeBegin \/ MergeSplit \/ MergeSplitTurn \/ MergeEnd)
  /\ ([]<>(~WholeGroupReady) \/ []<><<MergeWholeGroup>>_vars)
  /\ ([]<>(~BatchReady) \/ []<><<MergeBatch>>_vars)

LiveMeshDecrease == Len(orig.sceneMeshes) - Len(sceneMeshes)

(* No material group of the scene had two eligible meshes.                 *)
NoGroupOfTwo ==
  \A a, b \in DOMAIN orig.meshObj :
    (/\ a # b
     /\ IsMeshMergeable(orig.meshObj[a], config)
     /\ IsMeshMergeable(orig.meshObj[b], config))
      => orig.meshObj[a].material # orig.meshObj[b].material

(* C26 as stated: with preserveOriginalMeshes off, originalMeshCount less  *)
(* mergedMeshCount is the number of meshes by which the pass made the      *)
(* scene smaller, and is 0 when no material group has two eligible meshes. *)
C26_Original_ReductionIsActualDecrease ==
  (MergeDone /\ ~config.preserveOriginalMeshes) =>
    /\ result.originalMeshCount - result.mergedMeshCount = LiveMeshDecrease
    /\ NoGroupOfTwo => result.originalMeshCount - result.mergedMeshCount = 0

(***************************************************************************)
(* The groups of the Instancer and the ids                                 *)
(***************************************************************************)
(* C27 as stated: two meshes of one group built by _analyzeMeshes have the *)
(* same geometry id and the same material id, whatever the ids are made of.*)
C27_Original_GroupSharesBothIds ==
  InstRunning =>
    \A g \in 1..Len(loc.groups) :
      \A a, b \in Range(loc.groups[g].meshes) :
        /\ InstGeometryId(pre.meshObj[a]) = InstGeometryId(pre.meshObj[b])
        /\ InstMaterialId(pre.meshObj[a], pre.materialObj)
             = InstMaterialId(pre.meshObj[b], pre.materialObj)

(***************************************************************************)
(* optimizeMaterials called a second time                                  *)
(***************************************************************************)
(* optimizeMaterials is called again on the scene the first call left,     *)
(* with the configuration unchanged.  orig then holds the scene as the     *)
(* second call finds it, and what the first call returned.                 *)
MatAgain ==
  /\ pc = "mat_done"
  /\ "first" \notin DOMAIN orig
  /\ pc' = "mat_idle"
  /\ orig' = [sceneMeshes |-> sceneMeshes, meshObj |-> meshObj,
              materialObj |-> materialObj, first |-> result]
  /\ UNCHANGED <<sceneMeshes, meshObj, materialObj, config, loc, result, pre>>

NextAgain == NextMaterial \/ MatAgain

SpecAgain == InitMaterial /\ [][NextAgain]_vars

SecondRun == "first" \in DOMAIN orig

(* C28: a second optimizeMaterials finds only clusters of one material,    *)
(* creates and disposes no material, repoints no mesh and returns          *)
(* removedCount = 0, also where the similarity test is not transitive.     *)
C28_SecondRunChangesNothing ==
  SecondRun =>
    /\ sceneMeshes = orig.sceneMeshes
    /\ meshObj = orig.meshObj
    /\ materialObj = orig.materialObj
    /\ pc \in {"mat_merge", "mat_done"} =>
         \A g \in 1..Len(loc.groups) : Len(loc.groups[g]) = 1
    /\ pc = "mat_done" =>
         /\ result.removedCount = 0
         /\ result.optimizedCount = result.originalCount

(* The second call returned; the first had merged a cluster, and two of    *)
(* the materials the second call kept apart are both similar to a material *)
(* the first call disposed.                                                *)
C28_Witness ==
  /\ SecondRun
  /\ pc = "mat_done"
  /\ orig.first.removedCount > 0
  /\ \E x, y \in Range(result.mergedMaterials) :
       \E z \in DOMAIN materialObj :
         /\ materialObj[z].disposed
         /\ AreMaterialsSimilar(materialObj[x], materialObj[z], config)
         /\ AreMaterialsSimilar(materialObj[z], materialObj[y], config)
         /\ ~AreMaterialsSimilar(materialObj[x], materialObj[y], config)

(***************************************************************************)
(* mergeMeshes called a second time                                        *)
(***************************************************************************)
(* mergeMeshes is called again on the scene the first call left, with the  *)
(* configuration unchanged.  orig then holds the scene as the second call  *)
(* finds it, and what the first call returned.                             *)
MergeAgain ==
  /\ pc = "merge_done"
  /\ "first" \notin DOMAIN orig
  /\ pc' = "merge_idle"
  /\ orig' = [sceneMeshes |-> sceneMeshes, meshObj |-> meshObj,
              materialObj |-> materialObj, first |-> result]
  /\ UNCHANGED <<sceneMeshes, meshObj, materialObj, config, loc, result, pre>>

NextMergeAgain == NextMerger \/ MergeAgain

SpecMergeAgain == InitMerger /\ [][NextMergeAgain]_vars

(* C29 as stated: a second mergeMeshes merges nothing: it returns          *)
(* mergedMeshCount = 0 and the meshes of the scene are those the first     *)
(* call left, also when the first call split a group into batches.         *)
C29_Original_SecondMergeMergesNothing ==
  (SecondRun /\ pc = "merge_done") =>
    /\ result.mergedMeshCount = 0
    /\ Range(sceneMeshes) = Range(orig.sceneMeshes)

====
